---- MODULE Spec2Model ----
(***************************************************************************)
(* AI-INTERVIEW-COACH: the detection loop driver (detectionManager.js),    *)
(* the posture and emotion pipelines with their sustained-condition alert  *)
(* timers (postureDetection.js, emotionDetection.js) and the part of the   *)
(* interview lifecycle that drives them (interviewManager.js, main.js,     *)
(* uiController.js).                                                       *)
(*                                                                         *)
(* Time is counted in ticks of TickMs milliseconds.  A browser timer is a  *)
(* table entry with the ticks it still has to wait (rem) and the ticks it  *)
(* has waited (age); it may run late, never early.  An optional JS value   *)
(* (null or a value) is a sequence of length 0 or 1; a timer / frame       *)
(* handle is 0 for null and a positive id otherwise.                       *)
(*                                                                         *)
(* The posture pipeline and the emotion pipeline share no variable: each   *)
(* handler reads the recording flag and writes only its own timer, flag,   *)
(* last observation, label and accumulator.  A run therefore exercises one *)
(* scenario, fixed at its start: "posture" (pose results vary, no emotion  *)
(* tick is served), "emotion" (expression results vary, the subject sits   *)
(* upright) or "restart" (the interview is ended and restarted without an  *)
(* answer being recorded, so that detection is started more than once).    *)
(* The scenario "answers" follows the recorded answers through the backend *)
(* to the report; "recorders" lets the answer button be pressed while a    *)
(* startRecording call awaits the microphone; "poseloop" runs the pose     *)
(* loop of one session on any result of the detector; "backend" serves a  *)
(* request of either backend route; "handlers", "distribution" and         *)
(* "classifier" run single functions on sample inputs.                     *)
(***************************************************************************)
EXTENDS Integers, Sequences, FiniteSets, TLC

\* ------------------------------------------------------------------ bounds
\* expression inferences of the interval loop that may be outstanding at once
MaxEmoInFlight == 2
\* pose loop chains (an outstanding estimatePoses or a pending frame callback)
MaxPoseChains == 2
\* labels the model keeps per answer accumulator (the code keeps all of them)
MaxLog == 1
\* startSession calls in one run
MaxSessions == 2
\* startRecording calls that may await the microphone at once
MaxMicPending == 1
\* MediaRecorder objects that may record at once
MaxRecorders == 2
\* answers in the log at once
MaxAnswers == 3

\* --------------------------------------------------------- program constants
POSTURE_ALERT_THRESHOLD_MS == 5000
EMOTION_ALERT_THRESHOLD_MS == 3000
EMOTION_DETECTION_INTERVAL_MS == 1000
\* the length of a tick: the shortest of the three periods, which divides the
\* other two
TickMs == EMOTION_DETECTION_INTERVAL_MS
NEGATIVE_EMOTIONS == {"sad", "angry", "fearful"}

PostureTip == "Coaching Tip: Try to maintain an upright posture."
EmotionTip == "Coaching Tip: Remember to convey confidence and positivity!"

\* ------------------------------------------------------------------ helpers
Abs(n) == IF n < 0 THEN -n ELSE n

Min(S) == CHOOSE m \in S : \A n \in S : m <= n

\* the smallest positive id not in use (browser handles are positive)
FreshId(used) == Min({i \in 1..(Cardinality(used) + 1) : i \notin used})

\* s with the label appended, as far as the model keeps it
Push(s, label) == IF Len(s) < MaxLog THEN Append(s, label) ELSE s

\* ------------------------------------------------------- posture classifier
\* a keypoint: [name, x, y, xnan]; xnan says that x is NaN
Kp(n, px, py) == [name |-> n, x |-> px, y |-> py, xnan |-> FALSE]

\* keypoints.find((k) => (k.part || k.name) === name): <<>> when absent
findKeypoint(keypoints, name) ==
    LET hits == {i \in 1..Len(keypoints) : keypoints[i].name = name}
    IN  IF hits = {} THEN <<>> ELSE <<keypoints[Min(hits)]>>

\* binary64 arithmetic on positive numbers. A natural below 2^54 is the pair
\* <<hi, lo>> of its digits in base 2^27; a double is m * 2^e with the
\* significand m in [2^52, 2^53)
Limb == 2^27
Nat54(n) == <<0, n>>
Dbl(x) == <<2 * x[1] + (2 * x[2]) \div Limb, (2 * x[2]) % Limb>>
Inc(x) == IF x[2] + 1 = Limb THEN <<x[1] + 1, 0>> ELSE <<x[1], x[2] + 1>>
Ge(x, y) == x[1] > y[1] \/ (x[1] = y[1] /\ x[2] >= y[2])
Minus(x, y) ==
    IF x[2] >= y[2] THEN <<x[1] - y[1], x[2] - y[2]>>
    ELSE <<x[1] - y[1] - 1, x[2] + Limb - y[2]>>
Two52 == <<2^25, 0>>
Two53 == <<2^26, 0>>

\* one step of the long division by d: s = <<quotient, remainder>>
QuotientBit(s, d) ==
    LET r2 == Dbl(s[2])
        q2 == Dbl(s[1])
    IN  IF Ge(r2, d) THEN <<Inc(q2), Minus(r2, d)>> ELSE <<q2, r2>>

\* n steps of the long division by d (the test t = t has TLC evaluate t before
\* it descends)
RECURSIVE LongDivision(_, _, _)
LongDivision(s, d, n) ==
    IF n = 0 THEN s
    ELSE LET t == QuotientBit(s, d)
         IN  IF t = t THEN LongDivision(t, d, n - 1) ELSE s

\* the quotient n / d for d <= n < 2d, rounded to nearest, ties to even, as
\* the integer round(n / d * 2^52) in [2^52, 2^53]
RoundedQuotient(n, d) ==
    LET qr == LongDivision(<<<<0, 1>>, Minus(n, d)>>, d, 52)
        r2 == Dbl(qr[2])
        guard == Ge(r2, d)
        rest == IF guard THEN Minus(r2, d) ELSE r2
    IN  IF guard /\ (rest # <<0, 0>> \/ qr[1][2] % 2 = 1) THEN Inc(qr[1]) ELSE qr[1]

\* a significand in [2^52, 2^53] with its exponent, 2^53 renormalised
Normal(m, e) == IF m = Two53 THEN [m |-> Two52, e |-> e + 1] ELSE [m |-> m, e |-> e]

\* the double nearest to a / b for integers 0 < a, b < 2^12
Quotient64(a, b) ==
    LET k == CHOOSE i \in -12..12 :
                 IF i >= 0 THEN b * 2^i <= a /\ a < b * 2^(i + 1)
                 ELSE b <= a * 2^(-i) /\ a * 2^(-i) < 2 * b
        n == IF k >= 0 THEN a ELSE a * 2^(-k)
        d == IF k >= 0 THEN b * 2^k ELSE b
    IN  Normal(RoundedQuotient(Nat54(n), Nat54(d)), k - 52)

\* y - x for doubles 0 < x < y <= 2x: the difference is a double (no rounding)
RECURSIVE Scaled(_, _)
Scaled(m, e) == IF Ge(m, Two52) THEN [m |-> m, e |-> e] ELSE Scaled(Dbl(m), e - 1)
Difference64(y, x) ==
    LET my == IF y.e > x.e THEN Dbl(y.m) ELSE y.m
        mx == IF x.e > y.e THEN Dbl(x.m) ELSE x.m
    IN  Scaled(Minus(my, mx), IF y.e > x.e THEN x.e ELSE y.e)

\* the double nearest to x / y for doubles x, y > 0
Division64(x, y) ==
    IF Ge(x.m, y.m) THEN Normal(RoundedQuotient(x.m, y.m), x.e - y.e - 52)
    ELSE Normal(RoundedQuotient(Dbl(x.m), y.m), x.e - y.e - 53)

\* x > 0.25 for a double x > 0
AboveQuarter(x) == x.e + 52 > -2 \/ (x.e + 52 = -2 /\ x.m # Two52)

\* (cur - R) / R < -0.25 in binary64 for cur = a / b and R = num / den of the
\* same sign with |cur| < |R| <= 2 |cur|: the deviation is -(|R| - |cur|) / |R|
Deviation64Below(a, b, num, den) ==
    LET cur == Quotient64(Abs(a), b)
        ratio == Quotient64(Abs(num), den)
    IN  AboveQuarter(Division64(Difference64(ratio, cur), ratio))

\* the slouch check without the test of baselinePosture.ratio, against which
\* C38 is tried: for a ratio of 0 the quotient is -Infinity, NaN or Infinity
SlouchDeviationUnguarded(gap2, w, num, den) ==
    IF num = 0 THEN gap2 < 0
    ELSE IF num > 0 THEN 4 * gap2 * den < 3 * num * 2 * w
    ELSE 4 * gap2 * den > 3 * num * 2 * w

\* deviation < -0.25, where deviation = (gap2/(2w) - num/den) / (num/den),
\* gap2 = 2 * noseToShoulderGap, w = shoulderWidth > 0, den > 0;
\* baselinePosture.ratio falsy (0) gives deviation 0. The code computes in
\* binary64. For coordinates below 2^10 an exact deviation other than -1/4
\* differs from -1/4 by more than 2^-20 and the rounding error of the three
\* operations is below 2^-30, so the exact comparison decides; when the exact
\* deviation is -1/4 (4 * gap2 * den = 3 * num * 2 * w) the rounding decides
SlouchDeviationBelow(gap2, w, num, den) ==
    IF num = 0 THEN FALSE
    ELSE IF 4 * gap2 * den = 3 * num * 2 * w
    THEN Deviation64Below(gap2, 2 * w, num, den)
    ELSE IF num > 0 THEN 4 * gap2 * den < 3 * num * 2 * w
    ELSE 4 * gap2 * den > 3 * num * 2 * w

\* |atan2(dy, dx)| * 180 / PI < 174: all directions but those within 6 degrees
\* of the negative x axis (tan(6 deg) = 0.10510423...)
ShoulderAngleBelow174(dy, dx) ==
    ~(dx < 0 /\ Abs(dy) * 100000000 <= Abs(dx) * 10510423)

\* the tilt ratio (avgEarY - avgEyeY) / eyeDistance against a threshold p/q
\* (all y sums doubled); eyeDistance 0 gives +-Infinity or NaN
TiltBelow(dy2, dist, p, q) ==
    IF dist = 0 THEN dy2 < 0 ELSE dy2 * q < p * 2 * dist
TiltAbove(dy2, dist, p, q) ==
    IF dist = 0 THEN dy2 > 0 ELSE dy2 * q > p * 2 * dist

HiddenFlagsNone == <<>>

\* the else branch of line 176, lines 217-219
HiddenFlags == <<"Key points hidden">>

LeanCheckAlways(ml, mr, ls, rs) == <<"Leaning Head">>

\* the head lean check, lines 208-212 (both sides doubled and times 100)
LeanCheck(ml, mr, ls, rs) ==
    IF ml # <<>> /\ mr # <<>>
         /\ Abs((ml[1].x + mr[1].x) - (ls[1].x + rs[1].x)) * 100
                > Abs(rs[1].x - ls[1].x) * 15 * 2
    THEN <<"Leaning Head">> ELSE <<>>

FlagsShouldersFirst(slouch, tilt, lean, shoulders) == shoulders \o slouch \o tilt \o lean

\* the order of the flags.push calls, lines 184, 198, 201, 211, 216
Flags(slouch, tilt, lean, shoulders) == slouch \o tilt \o lean \o shoulders

analyzePosture(keypoints, baseline) ==
    LET ls == findKeypoint(keypoints, "left_shoulder")
        rs == findKeypoint(keypoints, "right_shoulder")
        ns == findKeypoint(keypoints, "nose")
        ml == findKeypoint(keypoints, "mouth_left")
        mr == findKeypoint(keypoints, "mouth_right")
        le == findKeypoint(keypoints, "left_eye")
        re == findKeypoint(keypoints, "right_eye")
        la == findKeypoint(keypoints, "left_ear")
        ra == findKeypoint(keypoints, "right_ear")
    IN  IF ls # <<>> /\ rs # <<>> /\ ns # <<>>
        THEN LET w == Abs(rs[1].x - ls[1].x)
                 gap2 == (ls[1].y + rs[1].y) - 2 * ns[1].y
                 slouch ==
                     IF baseline # <<>> /\ w > 0
                          /\ SlouchDeviationBelow(gap2, w, baseline[1].num, baseline[1].den)
                     THEN <<"Slouching">> ELSE <<>>
                 tilt ==
                     IF le # <<>> /\ re # <<>> /\ la # <<>> /\ ra # <<>>
                     THEN LET dy2 == (la[1].y + ra[1].y) - (le[1].y + re[1].y)
                              dist == Abs(le[1].x - re[1].x)
                          IN  IF TiltBelow(dy2, dist, -20, 100) THEN <<"Looking Down">>
                              ELSE IF TiltAbove(dy2, dist, 35, 100) THEN <<"Looking Up">>
                              ELSE <<>>
                     ELSE <<>>
                 shoulders ==
                     IF ShoulderAngleBelow174(rs[1].y - ls[1].y, rs[1].x - ls[1].x)
                     THEN <<"Tilted Shoulders">> ELSE <<>>
             IN  Flags(slouch, tilt, LeanCheck(ml, mr, ls, rs), shoulders)
        ELSE HiddenFlags

\* ------------------------------------------------------- emotion classifier
\* an expression mapping is the sequence of its entries [name, score] in
\* iteration order, which Object.entries keeps

\* a sort that places an entry ahead of the entries with an equal score
InsertAheadOfEqual(sorted, e) ==
    LET ahead == {i \in 1..Len(sorted) : sorted[i].score > e.score}
    IN  SubSeq(sorted, 1, Cardinality(ahead)) \o <<e>>
            \o SubSeq(sorted, Cardinality(ahead) + 1, Len(sorted))

\* one step of the stable sort with (a, b) => b[1] - a[1]: e, which came
\* later than the entries of sorted, stays behind every entry whose score is
\* not smaller
InsertSorted(sorted, e) ==
    LET ahead == {i \in 1..Len(sorted) : sorted[i].score - e.score >= 0}
    IN  SubSeq(sorted, 1, Cardinality(ahead)) \o <<e>>
            \o SubSeq(sorted, Cardinality(ahead) + 1, Len(sorted))

\* Object.entries(expressions).sort((a, b) => b[1] - a[1])
RECURSIVE SortByScore(_)
SortByScore(entries) ==
    IF entries = <<>> THEN <<>>
    ELSE InsertSorted(SortByScore(SubSeq(entries, 1, Len(entries) - 1)),
                      entries[Len(entries)])

\* line 53: the name of the first entry of the sorted array
dominantEmotion(expressions) == SortByScore(expressions)[1].name

\* ------------------------------------------------------------ sample inputs
GoodFrame == <<Kp("left_shoulder", 80, 60), Kp("right_shoulder", 20, 60), Kp("nose", 50, 20)>>
TiltedFrame == <<Kp("left_shoulder", 80, 60), Kp("right_shoulder", 20, 50), Kp("nose", 50, 20)>>
NaNFrame == <<[name |-> "nose", x |-> 0, y |-> 0, xnan |-> TRUE]>>

\* what estimatePoses may resolve to: the list of detected subjects
PoseResults == {<<>>, <<GoodFrame>>, <<TiltedFrame>>, <<NaNFrame>>}

\* frames for the posture classifier: a body is the nose and the two shoulders,
\* shape = <<left_shoulder.x, right_shoulder.x, right_shoulder.y>>, the left
\* shoulder at height 60 and the nose at height ny
Body(shape, ny) ==
    <<Kp("nose", 52, ny), Kp("left_shoulder", shape[1], 60),
      Kp("right_shoulder", shape[2], shape[3])>>

\* eyes 20 apart at height 20, ears d below them: tiltRatio = d / 20
Eyes(d) ==
    <<Kp("left_eye", 62, 20), Kp("right_eye", 42, 20),
      Kp("left_ear", 72, 20 + d), Kp("right_ear", 32, 20 + d)>>
Mouth(mlx, mrx) == <<Kp("mouth_left", mlx, 30), Kp("mouth_right", mrx, 30)>>
RECURSIVE Without(_, _)
Without(keypoints, name) ==
    IF keypoints = <<>> THEN <<>>
    ELSE IF Head(keypoints).name = name THEN Without(Tail(keypoints), name)
    ELSE <<Head(keypoints)>> \o Without(Tail(keypoints), name)

\* width 64 facing the camera (angle 180), 5.4 and 6.2 degrees off level, the
\* same with the shoulders swapped (angle 0), widths 16, 10, 9 and 0
ShoulderShapes ==
    {<<84, 20, 60>>, <<84, 20, 66>>, <<84, 20, 67>>, <<84, 20, 53>>, <<20, 84, 60>>,
     <<20, 84, 67>>, <<36, 20, 60>>, <<30, 20, 60>>, <<29, 20, 60>>, <<20, 20, 60>>,
     <<20, 20, 70>>}
NarrowShapes == {<<36, 20, 60>>, <<30, 20, 60>>, <<29, 20, 60>>, <<20, 20, 60>>}
\* nose heights: gaps 32, 25, 24, 23, 0, -23, -24, -32 under level shoulders
NoseYs == {28, 35, 36, 37, 60, 83, 84, 92}
Bodies ==
    {Body(sh, 28) : sh \in ShoulderShapes}
        \cup {Body(<<84, 20, 60>>, ny) : ny \in NoseYs}
        \cup {Body(sh, ny) : sh \in NarrowShapes, ny \in {35, 60}}
        \cup {Body(<<30, 20, 60>>, ny) : ny \in {56, 57}}
Faces ==
    {Eyes(d) : d \in {-5, -4, 0, 7, 8}}
        \cup {<<>>, Without(Eyes(-5), "left_eye"), Without(Eyes(8), "right_ear")}
Mouths == {<<>>, Mouth(47, 57), Mouth(60, 70), Without(Mouth(60, 70), "mouth_right")}
Upright == Body(<<84, 20, 60>>, 28)
Slumped == Body(<<84, 20, 60>>, 37)

\* the frames the classifier is applied to
Frames ==
    Bodies
        \cup {b \o Eyes(-5) \o Mouth(60, 70) : b \in Bodies}
        \cup {b \o f \o m : b \in {Upright, Slumped}, f \in Faces, m \in Mouths}
        \cup {Without(b, n) : b \in {Upright, Slumped \o Eyes(-5) \o Mouth(60, 70)},
                               n \in {"left_shoulder", "right_shoulder", "nose"}}

Sc(n, s) == [name |-> n, score |-> s]
SadFace == <<Sc("happy", 2), Sc("sad", 6), Sc("neutral", 2)>>
CalmFace == <<Sc("neutral", 7), Sc("sad", 3)>>

\* what detectAllFaces(..).withFaceExpressions() may resolve to
FaceResults == {<<>>, <<SadFace>>, <<CalmFace>>}

\* expression mappings for the emotion classifier: up to three entries with
\* distinct names in any order, scores in tenths
ExpressionNames == {"happy", "sad", "neutral"}
Scores == {0, 2, 6}
Mappings ==
    {m \in UNION {[1..n -> [name : ExpressionNames, score : Scores]] : n \in 1..3} :
        \A i, j \in DOMAIN m : m[i].name = m[j].name => i = j}
Detections == {<<>>, <<<<>>>>} \cup {<<m>> : m \in Mappings}

\* the poses of one inference for handlePoseResults: no subject (the handler
\* treats a null result alike), a subject without keypoints, subjects with
\* keypoints
HipNaNFrame == GoodFrame \o <<[name |-> "left_hip", x |-> 0, y |-> 0, xnan |-> TRUE]>>
Poses == PoseResults \cup {<<<<>>>>, <<HipNaNFrame>>}

\* ------------------------------------------------------------------- state
VARIABLES
    \* main.js
    recording,              \* flag: an answer is being recorded
    poseDetectionFrameId,   \* handle of the last requested animation frame
    detectionInterval,      \* handle of the last emotion interval
    video,                  \* the <video>: "empty", "loading", "ready", "playing"
    \* the browser's tables of pending work
    rafQueue,               \* ids of the pending animation frame callbacks
    intervals,              \* id -> [rem] of the live emotion intervals
    dimPolls,               \* live checkDimensionsInterval pollers
    poseInFlight,           \* estimatePoses calls not yet settled
    emoInFlight,            \* detectAllFaces calls not yet settled
    postureTimers,          \* id -> [rem, age] of the pending posture timeouts
    emotionTimers,          \* id -> [rem, age] of the pending emotion timeouts
    camPending,             \* setupWebcamStream calls awaiting the camera
    metaWait,               \* setupWebcamStream awaits onloadedmetadata
    listeners,              \* canplay listeners on the video element
    micPending,             \* startRecording calls awaiting the microphone
    fetchPending,           \* /questions requests not yet answered
    \* postureDetection.js
    baselinePosture, lastKeypoints, badPostureTimer, isAlertingPosture,
    \* emotionDetection.js
    badEmotionTimer, isAlertingEmotion, lastDetectedEmotion,
    \* interviewManager.js
    isFetchingQuestions, answersBeingProcessed, questions, currentQuestionIndex,
    currentAnswerEmotions, currentAnswerPostures,
    \* the page
    screen, questionText, answerBtnDisabled, setBaselineBtnDisabled, overlayVisible,
    postureLabel, emotionLabel,
    \* history: what the last step did, and the episode bookkeeping of the claims
    ev, detStopped, epNotes, epEnded, persisted, lastObs,
    \* the scenario of the run and the sessions started in it
    scenario, sessions,
    \* the answers: the log of the recordings stopped and not yet processed with
    \* the stage each has reached, the results kept for the report (each with
    \* the question that was on display), the live waitForAllAnswers
    \* pollers, the pending report timeouts, the display style of the report's
    \* controls, and whether the report of this interview has been generated
    answers, interviewData, waiting, reportTimers, reportControls, reportGenerated,
    \* the MediaRecorder objects started and not stopped; the variable
    \* mediaRecorder of main.js refers to the one started last
    recorders,
    \* the indices of the questions of the present list that have been shown
    displayed,
    \* backend: the request a route is serving: the route, the handler's
    \* position, the request's inputs, what the audio came to, the index i
    \* and the result of the retry loop, the generateContent calls made, the
    \* statuses of the failed ones, the delays waited in ms, the responses
    \* sent, and the files whose removal was attempted
    route, pc, body, heard, attempt, result, calls, errors, delays, sent, unlinked

detVars == <<poseDetectionFrameId, detectionInterval, rafQueue, intervals, dimPolls,
             poseInFlight, emoInFlight>>
camVars == <<video, camPending, metaWait, listeners>>
postureVars == <<lastKeypoints, badPostureTimer, isAlertingPosture, postureTimers,
                 currentAnswerPostures, postureLabel>>
emotionVars == <<badEmotionTimer, isAlertingEmotion, lastDetectedEmotion, emotionTimers,
                 currentAnswerEmotions, emotionLabel>>
flowVars == <<isFetchingQuestions, answersBeingProcessed, questions, currentQuestionIndex,
              screen, questionText, answerBtnDisabled, setBaselineBtnDisabled,
              overlayVisible, fetchPending>>
histVars == <<detStopped, epNotes, epEnded, persisted, lastObs, scenario, sessions>>
answerVars == <<answers, interviewData, waiting, reportTimers, reportControls,
                reportGenerated, recorders, displayed>>
backendVars == <<route, pc, body, heard, attempt, result, calls, errors, delays, sent,
                 unlinked>>
vars == <<recording, micPending, baselinePosture, detVars, camVars, postureVars,
          emotionVars, flowVars, histVars, answerVars, backendVars, ev>>

\* questions a /questions reply carries: one more where answers are followed
\* to the report
NumQuestions == 1
QuestionCount(sc) == IF sc = "answers" THEN NumQuestions + 1 ELSE NumQuestions

PostureTicks == POSTURE_ALERT_THRESHOLD_MS \div TickMs
EmotionTicks == EMOTION_ALERT_THRESHOLD_MS \div TickMs
IntervalTicks == EMOTION_DETECTION_INTERVAL_MS \div TickMs

Conds == {"posture", "emotion"}

Drop(f, id) == [i \in DOMAIN f \ {id} |-> f[i]]
Put(f, id, v) == [i \in DOMAIN f \cup {id} |-> IF i = id THEN v ELSE f[i]]
NoTimers == [i \in {} |-> 0]
NoAnswers == [id \in {} |-> 0]

\* no request is being served
NoBody == [audio |-> FALSE, postureData |-> "", emotionData |-> "", params |-> ""]
NoRequest ==
    /\ route = ""
    /\ pc = "idle"
    /\ body = NoBody
    /\ heard = ""
    /\ attempt = 0
    /\ result = ""
    /\ calls = 0
    /\ errors = <<>>
    /\ delays = <<>>
    /\ sent = <<>>
    /\ unlinked = <<>>

\* the record of a step:
\*   op     the handler that ran ("other" for those no property names)
\*   obs    the observation it classified: "adverse", "fine" or "none"
\*   rec    the recording flag it read
\*   tips   the coaching tips it passed to showNotification
\*   armed  the condition whose timer it armed ("" for none)
\*   from   the alerting state it found: "idle", "pending", "alerted" ("" if
\*          it did not reach the alerting logic)
\*   kept   for an elapsed timer: the condition persisted while it was pending
\*   note   for setBaseline: the notification it showed; for a TypeError: the
\*          handler that threw it
\*   waited for an elapsed timer: the ticks since it was armed
\*   seen   for runEmotionDetection: the detections it was given; for
\*          handlePoseResults and calculateDistribution: the argument
\*   dist   for calculateDistribution: the mapping it returned
Other == [op |-> "other", obs |-> "none", rec |-> FALSE, tips |-> {}, armed |-> "",
          from |-> "", kept |-> TRUE, waited |-> 0, flags |-> <<>>, ret |-> "",
          note |-> "", prior |-> "", seen |-> <<>>, dist |-> <<>>]
Plain(op) == [Other EXCEPT !.op = op]
Thrown(handler) == [Plain("TypeError") EXCEPT !.note = handler]
Observed(op, adverse, rec, armed, from) ==
    [Other EXCEPT !.op = op, !.obs = IF adverse THEN "adverse" ELSE "fine", !.rec = rec,
                  !.armed = armed, !.from = from]
Elapsed(op, adverse, rec, tips, kept, waited) ==
    [Other EXCEPT !.op = op, !.obs = IF adverse THEN "adverse" ELSE "fine", !.rec = rec,
                  !.tips = tips, !.kept = kept, !.waited = waited]

\* the alerting state of a condition, from its timer handle and alerted flag
Machine(handle, alerting) ==
    IF handle # 0 THEN "pending" ELSE IF alerting THEN "alerted" ELSE "idle"

\* variants against which C8 and C3 are tried: a timeout armed with half the
\* delay, and a clearTimeout that leaves the timeout pending
setTimeoutHalf(timers, id, ticks) == Put(timers, id, [rem |-> ticks \div 2, age |-> 0])
clearTimeoutNoop(timers, id) == timers

\* window.setTimeout and window.clearTimeout on a table of pending timeouts
setTimeout(timers, id, ticks) == Put(timers, id, [rem |-> ticks, age |-> 0])
clearTimeout(timers, id) == Drop(timers, id)


Scenarios == {"posture", "emotion"}

\* the inference results the scenario delivers
PosesIn(sc) ==
    IF sc = "posture" THEN PoseResults
    ELSE IF sc = "poseloop" THEN {<<>>, <<GoodFrame>>, <<<<>>>>}
    ELSE {<<GoodFrame>>}
FacesIn(sc) == IF sc = "emotion" THEN FaceResults ELSE {<<CalmFace>>}

\* the state once the page has loaded
Loaded ==
    /\ sessions = 0
    /\ recording = FALSE
    /\ poseDetectionFrameId = 0
    /\ detectionInterval = 0
    /\ video = "empty"
    /\ rafQueue = {}
    /\ intervals = NoTimers
    /\ dimPolls = 0
    /\ poseInFlight = 0
    /\ emoInFlight = 0
    /\ postureTimers = NoTimers
    /\ emotionTimers = NoTimers
    /\ camPending = 0
    /\ metaWait = FALSE
    /\ listeners = 0
    /\ micPending = 0
    /\ fetchPending = 0
    /\ baselinePosture = <<>>
    /\ lastKeypoints = <<>>
    /\ badPostureTimer = 0
    /\ isAlertingPosture = FALSE
    /\ badEmotionTimer = 0
    /\ isAlertingEmotion = FALSE
    /\ lastDetectedEmotion = "neutral"
    /\ isFetchingQuestions = TRUE
    /\ answersBeingProcessed = 0
    /\ questions = 0
    /\ currentQuestionIndex = 0
    /\ currentAnswerEmotions = <<>>
    /\ currentAnswerPostures = <<>>
    /\ screen = "welcome"
    /\ questionText = "waiting"
    /\ answerBtnDisabled = TRUE
    /\ setBaselineBtnDisabled = TRUE
    /\ overlayVisible = TRUE
    /\ postureLabel = "Calibrating..."
    /\ emotionLabel = "Detecting..."
    /\ ev = Other
    /\ detStopped = FALSE
    /\ epNotes = [c \in Conds |-> 0]
    /\ epEnded = [c \in Conds |-> 0]
    /\ persisted = [c \in Conds |-> TRUE]
    /\ lastObs = [c \in Conds |-> "none"]
    /\ answers = NoAnswers
    /\ interviewData = <<>>
    /\ waiting = 0
    /\ reportTimers = 0
    /\ reportControls = ""
    /\ reportGenerated = FALSE
    /\ recorders = 0
    /\ displayed = <<>>
    /\ NoRequest

Init == scenario \in Scenarios /\ Loaded
InitRestart == scenario = "restart" /\ Loaded

\* ------------------------------------------------- episode bookkeeping (history)
\* epNotes[c]: coaching tips of condition c since the last non-adverse
\*   observation processed while recording (kept up to 2).
\* epEnded[c]: 0 until an episode of c has ended; 1 once a non-adverse
\*   observation processed while recording has ended an episode (a pending
\*   timer or a raised alerted flag) and no adverse one has been processed
\*   while recording since; 2 from that next adverse observation on.
\* persisted[c]: since the pending timer of c was armed, every observation
\*   with a detected subject was adverse and recording stayed true.
\* lastObs[c]: the classification of the most recent observation of c.
NoteTip(c) == [epNotes EXCEPT ![c] = IF @ < 2 THEN @ + 1 ELSE @]

ObservedWhileRecording(c, adverse, wasIdle) ==
    /\ epNotes' = [epNotes EXCEPT ![c] = IF adverse THEN @ ELSE 0]
    /\ epEnded' = [epEnded EXCEPT ![c] =
                      IF adverse THEN (IF @ = 1 THEN 2 ELSE @)
                      ELSE IF wasIdle THEN @ ELSE 1]

\* ------------------------------------------------------ postureDetection.js
\* variants against which C1 and C4 are tried: arming without a look at the
\* alerted flag, and alerting logic that runs whether recording or not
PostureIdleNoFlag == badPostureTimer = 0
PostureGateOpen == TRUE

\* line 115: !badPostureTimer && !isAlertingPosture
PostureIdle == badPostureTimer = 0 /\ ~isAlertingPosture

\* line 112: typeof recording !== "undefined" && recording
PostureGate == recording

\* the recording branch of handlePoseResults, lines 112-138
PostureAlerting(isBadPosture, label) ==
    /\ IF isBadPosture
       THEN IF PostureIdle
            THEN LET id == FreshId(DOMAIN postureTimers)
                 IN  /\ badPostureTimer' = id
                     /\ postureTimers' = setTimeout(postureTimers, id, PostureTicks)
                     /\ persisted' = [persisted EXCEPT !["posture"] = TRUE]
            ELSE UNCHANGED <<badPostureTimer, postureTimers, persisted>>
       ELSE /\ IF badPostureTimer # 0
               THEN /\ postureTimers' = clearTimeout(postureTimers, badPostureTimer)
                    /\ badPostureTimer' = 0
               ELSE UNCHANGED <<badPostureTimer, postureTimers>>
            /\ persisted' = [persisted EXCEPT !["posture"] = TRUE]
    /\ isAlertingPosture' = (isBadPosture /\ isAlertingPosture)
    /\ currentAnswerPostures' = Push(currentAnswerPostures, label)
    /\ ObservedWhileRecording("posture", isBadPosture, PostureIdle)

\* results[0].keypoints[0] is undefined for an empty keypoint list
PoseHandlerThrows(results) == results # <<>> /\ results[1] = <<>>

NoSignal(results) == results = <<>> \/ results[1][1].xnan

handlePoseResults(results) ==
    IF NoSignal(results)
    THEN /\ postureLabel' = "Calibrating..."
         /\ ev' = [Plain("handlePoseResults") EXCEPT !.rec = recording, !.seen = results]
         /\ UNCHANGED <<lastKeypoints, badPostureTimer, isAlertingPosture, postureTimers,
                        currentAnswerPostures, epNotes, epEnded, persisted, lastObs>>
    ELSE LET keypoints == results[1]
             postureFlags == analyzePosture(keypoints, baselinePosture)
             isBadPosture == Len(postureFlags) > 0
             label == IF isBadPosture THEN postureFlags[1] ELSE "Good Posture"
         IN  /\ lastKeypoints' = <<keypoints>>
             /\ postureLabel' = label
             /\ lastObs' = [lastObs EXCEPT !["posture"] =
                                IF isBadPosture THEN "adverse" ELSE "fine"]
             /\ IF PostureGate
                THEN PostureAlerting(isBadPosture, label)
                ELSE /\ UNCHANGED <<badPostureTimer, isAlertingPosture, postureTimers,
                                    currentAnswerPostures, epNotes, epEnded>>
                     /\ persisted' = [persisted EXCEPT !["posture"] =
                                         @ /\ (isBadPosture \/ badPostureTimer = 0)]
             /\ ev' = [Observed("handlePoseResults", isBadPosture, recording,
                                IF badPostureTimer' \notin {0, badPostureTimer}
                                THEN "posture" ELSE "",
                                IF recording
                                THEN Machine(badPostureTimer, isAlertingPosture) ELSE "")
                          EXCEPT !.seen = results]

\* variant against which C6 is tried: a callback that does not re-check
PostureNoRecheck == TRUE

\* lines 118-119: analyzePosture(lastKeypoints).length > 0
PostureStillBad == Len(analyzePosture(lastKeypoints[1], baselinePosture)) > 0

\* the badPostureTimer callback, lines 116-125
PostureTimerElapsed(id) ==
    /\ id \in DOMAIN postureTimers
    /\ postureTimers[id].rem = 0
    /\ postureTimers' = Drop(postureTimers, id)
    /\ LET stillBad == PostureStillBad
       IN  /\ isAlertingPosture' = (isAlertingPosture \/ stillBad)
           /\ epNotes' = IF stillBad THEN NoteTip("posture") ELSE epNotes
           /\ ev' = Elapsed("postureTimer", stillBad, recording,
                            IF stillBad THEN {PostureTip} ELSE {}, persisted["posture"],
                            postureTimers[id].age)
    /\ persisted' = [persisted EXCEPT !["posture"] = TRUE]
    /\ badPostureTimer' = 0
    /\ UNCHANGED <<recording, micPending, baselinePosture, detVars, camVars, lastKeypoints,
                   currentAnswerPostures, postureLabel, emotionVars, flowVars,
                   detStopped, epEnded, lastObs, scenario, sessions>>
    /\ UNCHANGED answerVars
    /\ UNCHANGED backendVars

\* ------------------------------------------------------ emotionDetection.js
\* line 66: !badEmotionTimer && !isAlertingEmotion
EmotionIdle == badEmotionTimer = 0 /\ ~isAlertingEmotion

\* line 61: typeof recording !== "undefined" && recording
EmotionGate == recording

Capitalised(e) ==
    CASE e = "happy" -> "Happy" [] e = "sad" -> "Sad" [] e = "neutral" -> "Neutral"
      [] e = "surprised" -> "Surprised" [] e = "angry" -> "Angry"
      [] e = "fearful" -> "Fearful" [] OTHER -> e

\* the recording branch of runEmotionDetection, lines 61-87
EmotionAlerting(isBadEmotion, dominant) ==
    /\ IF isBadEmotion
       THEN IF EmotionIdle
            THEN LET id == FreshId(DOMAIN emotionTimers)
                 IN  /\ badEmotionTimer' = id
                     /\ emotionTimers' = setTimeout(emotionTimers, id, EmotionTicks)
                     /\ persisted' = [persisted EXCEPT !["emotion"] = TRUE]
            ELSE UNCHANGED <<badEmotionTimer, emotionTimers, persisted>>
       ELSE /\ IF badEmotionTimer # 0
               THEN /\ emotionTimers' = clearTimeout(emotionTimers, badEmotionTimer)
                    /\ badEmotionTimer' = 0
               ELSE UNCHANGED <<badEmotionTimer, emotionTimers>>
            /\ persisted' = [persisted EXCEPT !["emotion"] = TRUE]
    /\ isAlertingEmotion' = (isBadEmotion /\ isAlertingEmotion)
    /\ currentAnswerEmotions' = Push(currentAnswerEmotions, dominant)
    /\ ObservedWhileRecording("emotion", isBadEmotion, EmotionIdle)

\* Object.entries({})[0] is undefined and cannot be destructured
EmotionHandlerThrows(detections) == detections # <<>> /\ detections[1] = <<>>

\* a no-face branch that keeps a negative emotion as the last detected one
NoFaceEmotionSad == "sad"

\* lines 91-92: the label shown and the emotion stored when no face is detected
NoFaceLabel == "No Face"
NoFaceEmotion == "neutral"

\* runEmotionDetection after the await, lines 36-94
ProcessDetections(detections) ==
    IF detections = <<>>
    THEN /\ emotionLabel' = NoFaceLabel
         /\ lastDetectedEmotion' = NoFaceEmotion
         /\ ev' = [Plain("runEmotionDetection") EXCEPT !.rec = recording]
         /\ lastObs' = [lastObs EXCEPT !["emotion"] = "none"]
         /\ UNCHANGED <<badEmotionTimer, isAlertingEmotion, emotionTimers,
                        currentAnswerEmotions, epNotes, epEnded, persisted>>
    ELSE LET dominant == dominantEmotion(detections[1])
             isBadEmotion == dominant \in NEGATIVE_EMOTIONS
         IN  /\ lastDetectedEmotion' = dominant
             /\ emotionLabel' = Capitalised(dominant)
             /\ lastObs' = [lastObs EXCEPT !["emotion"] =
                                IF isBadEmotion THEN "adverse" ELSE "fine"]
             /\ IF EmotionGate
                THEN EmotionAlerting(isBadEmotion, dominant)
                ELSE /\ UNCHANGED <<badEmotionTimer, isAlertingEmotion, emotionTimers,
                                    currentAnswerEmotions, epNotes, epEnded>>
                     /\ persisted' = [persisted EXCEPT !["emotion"] =
                                         @ /\ (isBadEmotion \/ badEmotionTimer = 0)]
             /\ ev' = [Observed("runEmotionDetection", isBadEmotion, recording,
                                IF badEmotionTimer' \notin {0, badEmotionTimer}
                                THEN "emotion" ELSE "",
                                IF recording
                                THEN Machine(badEmotionTimer, isAlertingEmotion) ELSE "")
                          EXCEPT !.seen = detections]

\* line 69: NEGATIVE_EMOTIONS.has(lastDetectedEmotion)
EmotionStillBad == lastDetectedEmotion \in NEGATIVE_EMOTIONS

\* the badEmotionTimer callback, lines 67-74
EmotionTimerElapsed(id) ==
    /\ id \in DOMAIN emotionTimers
    /\ emotionTimers[id].rem = 0
    /\ emotionTimers' = Drop(emotionTimers, id)
    /\ LET stillBad == EmotionStillBad
       IN  /\ isAlertingEmotion' = (isAlertingEmotion \/ stillBad)
           /\ epNotes' = IF stillBad THEN NoteTip("emotion") ELSE epNotes
           /\ ev' = Elapsed("emotionTimer", stillBad, recording,
                            IF stillBad THEN {EmotionTip} ELSE {}, persisted["emotion"],
                            emotionTimers[id].age)
    /\ persisted' = [persisted EXCEPT !["emotion"] = TRUE]
    /\ badEmotionTimer' = 0
    /\ UNCHANGED <<recording, micPending, baselinePosture, detVars, camVars, postureVars,
                   lastDetectedEmotion, currentAnswerEmotions, emotionLabel, flowVars,
                   detStopped, epEnded, lastObs, scenario, sessions>>
    /\ UNCHANGED answerVars
    /\ UNCHANGED backendVars

\* ------------------------------------------------------- detectionManager.js
RECURSIVE AddIntervals(_, _)
AddIntervals(f, k) ==
    IF k = 0 THEN f
    ELSE AddIntervals(Put(f, FreshId(DOMAIN f), [rem |-> IntervalTicks]), k - 1)

\* k calls of startDetection in a row (one per canplay listener), lines 28-39
startDetection(k) ==
    /\ rafQueue' = rafQueue \ {poseDetectionFrameId}
    /\ dimPolls' = dimPolls + k
    /\ intervals' = AddIntervals(intervals, k)
    /\ detectionInterval' = FreshId(DOMAIN AddIntervals(intervals, k - 1))
    /\ detStopped' = FALSE
    /\ UNCHANGED <<poseDetectionFrameId, poseInFlight, emoInFlight>>

stopWebcamKeepsStream == video' = video

\* stopWebcam, main.js lines 120-129: every track stopped, srcObject null
stopWebcam == video' = "empty"

\* stopAllDetections, lines 41-56
stopAllDetections ==
    /\ rafQueue' = rafQueue \ {poseDetectionFrameId}
    /\ poseDetectionFrameId' = 0
    /\ intervals' = Drop(intervals, detectionInterval)
    /\ detectionInterval' = 0
    /\ stopWebcam
    /\ detStopped' = TRUE
    /\ UNCHANGED <<dimPolls, poseInFlight, emoInFlight, camPending, metaWait, listeners>>

videoWidthAny == TRUE

\* videoEl.videoWidth > 0, line 33: a stream is attached and its metadata is known
videoWidthPositive == video \in {"ready", "playing"}
videoPaused == video # "playing"
PoseChains == poseInFlight + Cardinality(rafQueue)

\* a checkDimensionsInterval (period 100 ms, line 37) that will find the width
\* positive at its next run
PollDue == dimPolls > 0 /\ videoWidthPositive /\ PoseChains < MaxPoseChains

\* the checkDimensionsInterval callback, lines 32-37, when the width is known:
\* it clears itself and runs runPoseDetectionLoop up to its await
PollDimensions ==
    /\ dimPolls > 0
    /\ videoWidthPositive
    /\ PoseChains < MaxPoseChains
    /\ dimPolls' = dimPolls - 1
    /\ poseInFlight' = poseInFlight + 1
    /\ ev' = [Plain("estimatePoses") EXCEPT !.from = "poll"]
    /\ UNCHANGED <<recording, micPending, baselinePosture, poseDetectionFrameId,
                   detectionInterval, rafQueue, intervals, emoInFlight, camVars,
                   postureVars, emotionVars, flowVars, histVars>>
    /\ UNCHANGED answerVars
    /\ UNCHANGED backendVars

\* a pending animation frame callback runs runPoseDetectionLoop up to its await
AnimationFrame(id) ==
    /\ id \in rafQueue
    /\ rafQueue' = rafQueue \ {id}
    /\ poseInFlight' = poseInFlight + 1
    /\ ev' = Plain("estimatePoses")
    /\ UNCHANGED <<recording, micPending, baselinePosture, poseDetectionFrameId,
                   detectionInterval, intervals, dimPolls, emoInFlight, camVars,
                   postureVars, emotionVars, flowVars, histVars>>
    /\ UNCHANGED answerVars
    /\ UNCHANGED backendVars

\* runPoseDetectionLoop after the await, lines 22-25
PoseInferenceDone(poses) ==
    /\ poseInFlight > 0
    /\ poseInFlight' = poseInFlight - 1
    /\ IF Len(poses) > 0 /\ ~PoseHandlerThrows(poses)
       THEN handlePoseResults(poses)
       ELSE /\ ev' = IF Len(poses) > 0 THEN Other ELSE Plain("runPoseDetectionLoop")
            /\ UNCHANGED <<postureVars, epNotes, epEnded, persisted, lastObs>>
    /\ IF PoseHandlerThrows(poses)
       THEN UNCHANGED <<poseDetectionFrameId, rafQueue>>
       ELSE LET id == FreshId(rafQueue)
            IN  /\ poseDetectionFrameId' = id
                /\ rafQueue' = rafQueue \cup {id}
    /\ UNCHANGED <<recording, micPending, baselinePosture, detectionInterval, intervals,
                   dimPolls, emoInFlight, camVars, emotionVars, flowVars, detStopped,
                   scenario, sessions>>
    /\ UNCHANGED answerVars
    /\ UNCHANGED backendVars

\* an emotion interval fires: runEmotionDetection up to its await, lines 29-34
EmotionIntervalFires(id) ==
    /\ scenario = "emotion"
    /\ id \in DOMAIN intervals
    /\ intervals[id].rem = 0
    /\ intervals' = Put(intervals, id, [rem |-> IntervalTicks])
    /\ IF videoPaused
       THEN /\ ev' = Other
            /\ UNCHANGED emoInFlight
       ELSE /\ emoInFlight < MaxEmoInFlight
            /\ emoInFlight' = emoInFlight + 1
            /\ ev' = Plain("detectAllFaces")
    /\ UNCHANGED <<recording, micPending, baselinePosture, poseDetectionFrameId,
                   detectionInterval, rafQueue, dimPolls, poseInFlight, camVars,
                   postureVars, emotionVars, flowVars, histVars>>
    /\ UNCHANGED answerVars
    /\ UNCHANGED backendVars

EmotionInferenceDone(detections) ==
    /\ emoInFlight > 0
    /\ emoInFlight' = emoInFlight - 1
    /\ IF EmotionHandlerThrows(detections)
       THEN /\ ev' = Other
            /\ UNCHANGED <<emotionVars, epNotes, epEnded, persisted, lastObs>>
       ELSE ProcessDetections(detections)
    /\ UNCHANGED <<recording, micPending, baselinePosture, poseDetectionFrameId,
                   detectionInterval, rafQueue, intervals, dimPolls, poseInFlight, camVars,
                   postureVars, flowVars, detStopped, scenario, sessions>>
    /\ UNCHANGED answerVars
    /\ UNCHANGED backendVars

\* TickMs milliseconds pass; the 100 ms poll of startDetection runs ten times in
\* that span, so no tick passes over a poll that finds the width positive
Waited(f, cap) ==
    [i \in DOMAIN f |-> [rem |-> IF f[i].rem > 0 THEN f[i].rem - 1 ELSE 0,
                         age |-> IF f[i].age < cap THEN f[i].age + 1 ELSE cap]]
Tick ==
    /\ \/ \E i \in DOMAIN postureTimers : postureTimers[i].rem > 0
       \/ \E i \in DOMAIN emotionTimers : emotionTimers[i].rem > 0
       \/ \E i \in DOMAIN intervals : intervals[i].rem > 0
    /\ ~PollDue
    /\ postureTimers' = Waited(postureTimers, PostureTicks)
    /\ emotionTimers' = Waited(emotionTimers, EmotionTicks)
    /\ intervals' = [i \in DOMAIN intervals |->
                        [rem |-> IF intervals[i].rem > 0 THEN intervals[i].rem - 1 ELSE 0]]
    /\ ev' = Other
    /\ UNCHANGED <<recording, micPending, baselinePosture, poseDetectionFrameId,
                   detectionInterval, rafQueue, dimPolls, poseInFlight, emoInFlight, camVars,
                   lastKeypoints, badPostureTimer, isAlertingPosture, currentAnswerPostures,
                   postureLabel, badEmotionTimer, isAlertingEmotion, lastDetectedEmotion,
                   currentAnswerEmotions, emotionLabel, flowVars, histVars>>
    /\ UNCHANGED answerVars
    /\ UNCHANGED backendVars

\* ------------------------------------------------------ interviewManager.js
\* binary64 product by 100: the exact product 25 m * 2^(e + 2), rounded to 53
\* bits, ties to even
Times5(x) == <<(5 * x[1]) + ((5 * x[2]) \div Limb), (5 * x[2]) % Limb>>
Times100(x) ==
    LET p == Times5(Times5(x.m))
        s == IF p[1] >= 2^30 THEN 5 ELSE 4
        q == <<p[1] \div 2^s, ((p[1] % 2^s) * (Limb \div 2^s)) + (p[2] \div 2^s)>>
        rest == p[2] % 2^s
        up == rest > 2^(s - 1) \/ (rest = 2^(s - 1) /\ q[2] % 2 = 1)
    IN  Normal(IF up THEN Inc(q) ELSE q, x.e + 2 + s)

\* Math.round of a positive double below 2^25: its integer part, plus one if
\* the bit of weight 1/2 is set
MathRound(x) ==
    LET n == -x.e
    IN  IF n > 53 THEN 0
        ELSE (x.m[1] \div 2^(n - 27)) + ((x.m[1] \div 2^(n - 28)) % 2)

\* a percentage rounded from the exact quotient, halves up
PercentExact(count, total) == (200 * count + total) \div (2 * total)

\* line 244: Math.round((counts[key] / dataArray.length) * 100)
Percent(count, total) == MathRound(Times100(Quotient64(count, total)))

\* calculateDistribution, lines 236-247: a mapping is a function on its keys,
\* the empty one for an empty array
calculateDistribution(dataArray) ==
    LET counts == [key \in {dataArray[i] : i \in DOMAIN dataArray} |->
                      Cardinality({i \in DOMAIN dataArray : dataArray[i] = key})]
    IN  IF Len(dataArray) = 0 THEN <<>>
        ELSE [key \in DOMAIN counts |-> Percent(counts[key], Len(dataArray))]

\* recording becomes false: a pending timer no longer spans one recording
RecordingStopped(rec) ==
    persisted' = [c \in Conds |->
                     persisted[c] /\ (~rec \/ (IF c = "posture" THEN badPostureTimer
                                                               ELSE badEmotionTimer) = 0)]

\* mediaRecorder.stop() on the recorder started last, lines 164 and 280
recorderStop(stopped) == recorders' = IF stopped THEN recorders - 1 ELSE recorders

\* the startRecording calls that may await the microphone in a scenario
MicQueue(sc) == IF sc = "recorders" THEN MaxMicPending + 1 ELSE MaxMicPending

\* mediaRecorder.stop(), lines 164 and 280: the recorder's stop event is
\* queued. The log entry of the answer keeps the index of the question on
\* display and the labels accumulated, and later what processAnswer made of
\* it; an answer leaves the log when processAnswer has pushed or rejected it,
\* or when the interview is discarded after prepareFormData has thrown
InFlight(log) == {id \in DOMAIN log : log[id].stage \in {"stopped", "sent"}}
mediaRecorderStop(log) ==
    Put(log, FreshId(DOMAIN log),
        [asked |-> currentQuestionIndex - 1, postures |-> currentAnswerPostures,
         emotions |-> currentAnswerEmotions, stage |-> "stopped", question |-> -1,
         postureData |-> <<>>, emotionData |-> <<>>])

\* endInterview up to the first poll of waitForAllAnswers, lines 275-294 and
\* 331-333; rec and abp are the values of recording and answersBeingProcessed
\* at the call (the caller logs the recording it stops)
endInterview(idx, rec, abp) ==
    /\ currentQuestionIndex' = idx + 1
    /\ answersBeingProcessed' = IF rec THEN abp + 1 ELSE abp
    /\ recording' = FALSE
    /\ screen' = "report"
    /\ stopAllDetections
    /\ reportControls' = "none"
    /\ waiting' = waiting + 1

\* history record of a step that called stopAllDetections; from tells whether
\* both handles were set at the call
Stopped ==
    [Plain("stopAllDetections") EXCEPT
        !.from = IF poseDetectionFrameId # 0 /\ detectionInterval # 0 THEN "running" ELSE ""]

\* the branch of displayCurrentQuestion that calls endInterview, lines 52-53
Ends(idx, len, fetching) == ~(idx < len) /\ ~fetching

\* a display that leaves the index where it is, against which C37 is tried
SameIndex(idx) == idx

\* line 52: currentQuestionIndex++
NextIndex(idx) == idx + 1

\* displayCurrentQuestion, uiController.js lines 41-57, called with the values
\* its caller has just assigned and the indices shown of the present list
displayCurrentQuestion(idx, len, fetching, rec, abp, btn, shown) ==
    IF idx < len
    THEN /\ questionText' = "question"
         /\ displayed' = Append(shown, idx)
         /\ answerBtnDisabled' = FALSE
         /\ currentQuestionIndex' = NextIndex(idx)
         /\ recording' = rec
         /\ answersBeingProcessed' = abp
         /\ UNCHANGED <<screen, detVars, camVars, detStopped, waiting, reportControls>>
    ELSE IF Ends(idx, len, fetching)
    THEN /\ endInterview(idx, rec, abp)
         /\ answerBtnDisabled' = btn
         /\ displayed' = shown
         /\ UNCHANGED questionText
    ELSE /\ questionText' = "loading"
         /\ displayed' = shown
         /\ answerBtnDisabled' = btn
         /\ currentQuestionIndex' = idx
         /\ recording' = rec
         /\ answersBeingProcessed' = abp
         /\ UNCHANGED <<screen, detVars, camVars, detStopped, waiting, reportControls>>

\* the "Get Started" button (enabled once the models are loaded)
GetStarted ==
    /\ screen = "welcome"
    /\ screen' = "setup"
    /\ ev' = Other
    /\ UNCHANGED <<recording, micPending, baselinePosture, detVars, camVars, postureVars,
                   emotionVars, isFetchingQuestions, answersBeingProcessed, questions,
                   currentQuestionIndex, questionText, answerBtnDisabled,
                   setBaselineBtnDisabled, overlayVisible, fetchPending, histVars>>
    /\ UNCHANGED answerVars
    /\ UNCHANGED backendVars

\* startSession up to its await, lines 59-74, with fetchQuestions up to its await
StartSession ==
    /\ screen = "setup"
    /\ sessions < MaxSessions
    /\ sessions' = sessions + 1
    /\ screen' = "interview"
    /\ isFetchingQuestions' = TRUE
    /\ fetchPending' = fetchPending + 1
    /\ camPending' = camPending + 1
    /\ ev' = Other
    /\ UNCHANGED <<recording, micPending, baselinePosture, detVars, video, metaWait, listeners,
                   postureVars, emotionVars, answersBeingProcessed, questions,
                   currentQuestionIndex, questionText, answerBtnDisabled,
                   setBaselineBtnDisabled, overlayVisible, detStopped, lastObs, epNotes, epEnded,
                   persisted, scenario>>
    /\ UNCHANGED answerVars
    /\ UNCHANGED backendVars

\* setupWebcamStream after getUserMedia, main.js lines 107-113
WebcamGranted ==
    /\ camPending > 0
    /\ camPending' = camPending - 1
    /\ video' = "loading"
    /\ metaWait' = TRUE
    /\ ev' = Other
    /\ UNCHANGED <<recording, micPending, baselinePosture, detVars, listeners, postureVars,
                   emotionVars, flowVars, histVars>>
    /\ UNCHANGED answerVars
    /\ UNCHANGED backendVars

\* onloadedmetadata resolves setupWebcamStream; startSession adds its listener
LoadedMetadata ==
    /\ video = "loading"
    /\ video' = "ready"
    /\ metaWait' = FALSE
    /\ listeners' = IF metaWait THEN listeners + 1 ELSE listeners
    /\ ev' = Other
    /\ UNCHANGED <<recording, micPending, baselinePosture, detVars, camPending, postureVars,
                   emotionVars, flowVars, histVars>>
    /\ UNCHANGED answerVars
    /\ UNCHANGED backendVars

\* the video fires canplay: every listener calls startDetection, lines 76-79
Canplay ==
    /\ video = "ready"
    /\ listeners > 0
    /\ video' = "playing"
    /\ startDetection(listeners)
    /\ setBaselineBtnDisabled' = FALSE
    /\ ev' = Other
    /\ UNCHANGED <<recording, micPending, baselinePosture, camPending, metaWait, listeners,
                   postureVars, emotionVars, isFetchingQuestions, answersBeingProcessed,
                   questions, currentQuestionIndex, screen, questionText, answerBtnDisabled,
                   overlayVisible, fetchPending, lastObs, epNotes, epEnded, persisted, scenario,
                   sessions>>
    /\ UNCHANGED answerVars
    /\ UNCHANGED backendVars

\* fetchQuestions after a successful reply, lines 98-107
FetchQuestionsDone ==
    /\ fetchPending > 0
    /\ fetchPending' = fetchPending - 1
    /\ questions' = QuestionCount(scenario)
    /\ interviewData' = <<>>
    /\ isFetchingQuestions' = FALSE
    /\ IF questionText = "loading"
       THEN displayCurrentQuestion(0, QuestionCount(scenario), FALSE, recording,
                                   answersBeingProcessed, answerBtnDisabled, <<>>)
       ELSE /\ currentQuestionIndex' = 0
            /\ displayed' = <<>>
            /\ UNCHANGED <<recording, answersBeingProcessed, screen, questionText,
                           answerBtnDisabled, detVars, camVars, detStopped, waiting,
                           reportControls>>
    /\ answers' = IF questionText = "loading" /\ Ends(0, QuestionCount(scenario), FALSE)
                     /\ recording
                  THEN mediaRecorderStop(answers) ELSE answers
    /\ recorderStop(questionText = "loading" /\ Ends(0, QuestionCount(scenario), FALSE)
                    /\ recording)
    /\ ev' = IF questionText = "loading" /\ Ends(0, QuestionCount(scenario), FALSE)
             THEN Stopped ELSE Other
    /\ UNCHANGED <<micPending, baselinePosture, postureVars, emotionVars,
                   setBaselineBtnDisabled, overlayVisible, lastObs, epNotes, epEnded, persisted,
                   scenario, sessions, reportTimers, reportGenerated>>
    /\ UNCHANGED backendVars

\* fetchQuestions after a failed request, lines 108-114
FetchQuestionsFails ==
    /\ fetchPending > 0
    /\ fetchPending' = fetchPending - 1
    /\ overlayVisible' = TRUE
    /\ ev' = Other
    /\ UNCHANGED <<recording, micPending, baselinePosture, detVars, camVars, postureVars,
                   emotionVars, isFetchingQuestions, answersBeingProcessed, questions,
                   currentQuestionIndex, screen, questionText, answerBtnDisabled,
                   setBaselineBtnDisabled, histVars>>
    /\ UNCHANGED answerVars
    /\ UNCHANGED backendVars

ShoulderWidthNeverTooSmall(w) == FALSE
ShoulderWidthAtMostTen(w) == w <= 10

\* shoulderWidth < 10, postureDetection.js line 65
ShoulderWidthTooSmall(w) == w < 10

\* setBaseline, postureDetection.js lines 47-76: <<>> on failure, else the
\* new baseline {ratio: num/den}
setBaseline(last) ==
    IF last = <<>> THEN <<>>
    ELSE LET ls == findKeypoint(last[1], "left_shoulder")
             rs == findKeypoint(last[1], "right_shoulder")
             ns == findKeypoint(last[1], "nose")
         IN  IF ls = <<>> \/ rs = <<>> \/ ns = <<>> THEN <<>>
             ELSE IF ShoulderWidthTooSmall(Abs(rs[1].x - ls[1].x)) THEN <<>>
             ELSE <<[num |-> (ls[1].y + rs[1].y) - 2 * ns[1].y,
                     den |-> 2 * Abs(rs[1].x - ls[1].x)]>>

\* the texts of the showNotification calls of setBaseline, lines 50, 60, 66, 74
StillCalibrating == "Still calibrating. Please wait a moment and try again."
ShouldersUnclear == "Could not detect shoulders clearly. Try adjusting your position."
WidthUnknown == "Cannot determine shoulder width. Please sit upright."
BaselineSaved == "Baseline posture saved!"

\* the notification setBaseline shows
setBaselineNotification(last) ==
    IF last = <<>> THEN StillCalibrating
    ELSE LET ls == findKeypoint(last[1], "left_shoulder")
             rs == findKeypoint(last[1], "right_shoulder")
             ns == findKeypoint(last[1], "nose")
         IN  IF ls = <<>> \/ rs = <<>> \/ ns = <<>> THEN ShouldersUnclear
             ELSE IF ShoulderWidthTooSmall(Abs(rs[1].x - ls[1].x)) THEN WidthUnknown
             ELSE BaselineSaved

\* history record of a setBaseline call: its return value, its notification
\* and whether a baseline was there before ("other": one with different fields)
Calibrated ==
    LET new == setBaseline(lastKeypoints)
    IN  [Plain("setBaseline") EXCEPT
            !.ret = IF new = <<>> THEN "false" ELSE "true",
            !.note = setBaselineNotification(lastKeypoints),
            !.prior = IF baselinePosture = <<>> THEN "none"
                      ELSE IF baselinePosture = new THEN "same" ELSE "other"]

\* the click listener of the baseline button, lines 370-379
SetBaselineClick ==
    /\ screen = "interview"
    /\ overlayVisible
    /\ ~setBaselineBtnDisabled
    /\ IF setBaseline(lastKeypoints) = <<>>
       THEN /\ ev' = Calibrated
            /\ UNCHANGED <<recording, baselinePosture, detVars, camVars,
                           answersBeingProcessed, currentQuestionIndex, screen, questionText,
                           answerBtnDisabled, setBaselineBtnDisabled, overlayVisible,
                           detStopped, persisted, answers, waiting, reportControls,
                           recorders, displayed>>
       ELSE /\ baselinePosture' = setBaseline(lastKeypoints)
            /\ setBaselineBtnDisabled' = TRUE
            /\ overlayVisible' = FALSE
            /\ displayCurrentQuestion(currentQuestionIndex, questions, isFetchingQuestions,
                                      recording, answersBeingProcessed, answerBtnDisabled,
                                      displayed)
            /\ RecordingStopped(recording /\ ~recording')
            /\ recording => Cardinality(DOMAIN answers) < MaxAnswers
            /\ answers' = IF recording /\ ~recording' THEN mediaRecorderStop(answers)
                          ELSE answers
            /\ recorderStop(recording /\ ~recording')
            /\ ev' = IF Ends(currentQuestionIndex, questions, isFetchingQuestions)
                     THEN Stopped ELSE Calibrated
    /\ UNCHANGED <<micPending, postureVars, emotionVars, isFetchingQuestions, questions,
                   fetchPending, lastObs, epNotes, epEnded, scenario, sessions,
                   interviewData, reportTimers, reportGenerated>>
    /\ UNCHANGED backendVars

\* the answer button while not recording: startRecording up to its await,
\* lines 139-144
StartRecording ==
    /\ screen = "interview"
    /\ ~answerBtnDisabled
    /\ ~recording
    /\ micPending < MicQueue(scenario)
    /\ currentAnswerEmotions' = <<>>
    /\ currentAnswerPostures' = <<>>
    /\ micPending' = micPending + 1
    /\ ev' = Other
    /\ UNCHANGED <<recording, baselinePosture, detVars, camVars, lastKeypoints,
                   badPostureTimer, isAlertingPosture, postureTimers, postureLabel,
                   badEmotionTimer, isAlertingEmotion, lastDetectedEmotion, emotionTimers,
                   emotionLabel, flowVars, histVars>>
    /\ UNCHANGED answerVars
    /\ UNCHANGED backendVars

\* startRecording after getUserMedia, lines 145-155
MicGranted ==
    /\ micPending > 0
    /\ recorders < MaxRecorders
    /\ micPending' = micPending - 1
    /\ recorders' = recorders + 1
    /\ UNCHANGED displayed
    /\ recording' = TRUE
    /\ ev' = Other
    /\ UNCHANGED <<baselinePosture, detVars, camVars, postureVars, emotionVars, flowVars,
                   histVars, answers, interviewData, waiting, reportTimers, reportControls,
                   reportGenerated>>
    /\ UNCHANGED backendVars

\* the answer button while recording: stopRecording, lines 163-173
StopRecording ==
    /\ screen = "interview"
    /\ ~answerBtnDisabled
    /\ recording
    /\ Cardinality(DOMAIN answers) < MaxAnswers
    /\ answers' = mediaRecorderStop(answers)
    /\ recorderStop(TRUE)
    /\ displayCurrentQuestion(currentQuestionIndex, questions, isFetchingQuestions,
                              FALSE, answersBeingProcessed + 1, TRUE, displayed)
    /\ RecordingStopped(TRUE)
    /\ ev' = IF Ends(currentQuestionIndex, questions, isFetchingQuestions)
             THEN Stopped ELSE Other
    /\ UNCHANGED <<micPending, baselinePosture, postureVars, emotionVars,
                   isFetchingQuestions, questions, setBaselineBtnDisabled, overlayVisible,
                   fetchPending, lastObs, epNotes, epEnded, scenario, sessions,
                   interviewData, reportTimers, reportGenerated>>
    /\ UNCHANGED backendVars

\* the "End Interview" button: endInterview, lines 275-294
EndInterviewClick ==
    /\ screen = "interview"
    /\ recording => Cardinality(DOMAIN answers) < MaxAnswers
    /\ answers' = IF recording THEN mediaRecorderStop(answers) ELSE answers
    /\ recorderStop(recording)
    /\ UNCHANGED displayed
    /\ endInterview(currentQuestionIndex, recording, answersBeingProcessed)
    /\ RecordingStopped(recording)
    /\ ev' = Stopped
    /\ UNCHANGED <<micPending, baselinePosture, postureVars, emotionVars,
                   isFetchingQuestions, questions, questionText, answerBtnDisabled,
                   setBaselineBtnDisabled, overlayVisible, fetchPending, lastObs, epNotes, epEnded,
                   scenario, sessions, interviewData, reportTimers, reportGenerated>>
    /\ UNCHANGED backendVars

\* resetInterview without its assignment to baselinePosture
resetKeepsBaseline(baseline) == baseline

\* line 356 of resetInterview: baselinePosture is declared by
\* postureDetection.js, its typeof is never "undefined", it becomes null
resetBaseline(baseline) == <<>>

\* history record of a resetInterview call and whether a baseline was there
Restarted ==
    [Plain("resetInterview") EXCEPT
        !.prior = IF baselinePosture = <<>> THEN "none" ELSE "other"]

\* the restart button of the report: resetInterview, lines 347-365
ResetInterview ==
    /\ screen = "report"
    /\ questions' = 0
    /\ currentQuestionIndex' = 0
    /\ interviewData' = <<>>
    /\ reportGenerated' = FALSE
    /\ answers' = [id \in InFlight(answers) |-> answers[id]]
    /\ UNCHANGED recorders
    /\ displayed' = <<>>
    /\ currentAnswerEmotions' = <<>>
    /\ currentAnswerPostures' = <<>>
    /\ answersBeingProcessed' = 0
    /\ isFetchingQuestions' = FALSE
    /\ baselinePosture' = resetBaseline(baselinePosture)
    /\ questionText' = "waiting"
    /\ setBaselineBtnDisabled' = FALSE
    /\ overlayVisible' = TRUE
    /\ screen' = "setup"
    /\ ev' = Restarted
    /\ UNCHANGED <<recording, micPending, detVars, camVars, lastKeypoints, badPostureTimer,
                   isAlertingPosture, postureTimers, postureLabel, badEmotionTimer,
                   isAlertingEmotion, lastDetectedEmotion, emotionTimers, emotionLabel,
                   answerBtnDisabled, fetchPending, histVars, waiting, reportTimers,
                   reportControls>>
    /\ UNCHANGED backendVars

\* questions[i] of an array of len questions: <<>> for undefined, else the
\* question, which its index identifies
QuestionAt(i, len) == IF 0 <= i /\ i < len THEN <<i>> ELSE <<>>

\* the texts of the error notifications of processAnswer, lines 192 and 199
\* (the first is the message of the backend's reply)
SkipMessage == "data.message"
ErrorProcessing == "Error processing your answer."

\* the recorder of answer id fires onstop: processAnswer up to its await,
\* lines 183-189, with prepareFormData, lines 210-229, which throws on
\* currentQ.text when questions[currentQuestionIndex - 2] is undefined
RecorderStopped(id) ==
    /\ id \in DOMAIN answers
    /\ answers[id].stage = "stopped"
    /\ LET currentQ == QuestionAt(currentQuestionIndex - 2, questions)
       IN  IF currentQ = <<>>
           THEN /\ answers' = [answers EXCEPT ![id].stage = "thrown"]
                /\ ev' = Thrown("prepareFormData")
           ELSE /\ answers' =
                       [answers EXCEPT
                           ![id].stage = "sent",
                           ![id].question = currentQ[1],
                           ![id].postureData = calculateDistribution(currentAnswerPostures),
                           ![id].emotionData = calculateDistribution(currentAnswerEmotions)]
                /\ ev' = Plain("prepareFormData")
    /\ UNCHANGED <<recording, micPending, baselinePosture, detVars, camVars, postureVars,
                   emotionVars, flowVars, histVars, interviewData, waiting, reportTimers,
                   reportControls, reportGenerated, recorders, displayed>>
    /\ UNCHANGED backendVars

\* what sendAnswerToBackend may come to: a reply with an evaluation, a reply
\* with skipEvaluation, or an exception
Outcomes == {"ok", "skipEvaluation", "error"}

\* processAnswer after its await, lines 189-203
BackendResponds(id, outcome) ==
    /\ id \in DOMAIN answers
    /\ answers[id].stage = "sent"
    /\ LET currentQ == QuestionAt(currentQuestionIndex - 2, questions)
           pushes == outcome = "ok" /\ currentQ # <<>>
           stage == IF pushes THEN "pushed"
                    ELSE IF outcome = "skipEvaluation" THEN "skipped" ELSE "failed"
       IN  /\ interviewData' =
                  IF pushes
                  THEN Append(interviewData,
                              [question |-> currentQ[1], asked |-> answers[id].asked])
                  ELSE interviewData
           /\ answers' = Drop(answers, id)
           /\ ev' = [Plain("processAnswer") EXCEPT
                        !.ret = stage,
                        !.note = IF pushes THEN ""
                                 ELSE IF outcome = "skipEvaluation" THEN SkipMessage
                                 ELSE ErrorProcessing]
    /\ answersBeingProcessed' = answersBeingProcessed - 1
    /\ UNCHANGED <<recording, micPending, baselinePosture, detVars, camVars, postureVars,
                   emotionVars, isFetchingQuestions, questions, currentQuestionIndex, screen,
                   questionText, answerBtnDisabled, setBaselineBtnDisabled, overlayVisible,
                   fetchPending, histVars, waiting, reportTimers, reportControls,
                   reportGenerated, recorders, displayed>>
    /\ UNCHANGED backendVars

\* a variant against which C28 is tried: a poll that never waits
AllAnswersDoneAlways(abp) == TRUE

\* line 334: answersBeingProcessed === 0
AllAnswersDone(abp) == abp = 0

\* a poll of waitForAllAnswers that finds the counter at 0, lines 333-337, and
\* endInterview after its await, which sets the report timeout, lines 296-299
WaitPoll ==
    /\ waiting > 0
    /\ AllAnswersDone(answersBeingProcessed)
    /\ waiting' = waiting - 1
    /\ reportTimers' = reportTimers + 1
    /\ ev' = Plain("waitForAllAnswers")
    /\ UNCHANGED <<recording, micPending, baselinePosture, detVars, camVars, postureVars,
                   emotionVars, flowVars, histVars, answers, interviewData, reportControls,
                   reportGenerated, recorders, displayed>>
    /\ UNCHANGED backendVars

\* the report timeout: generateReport and showReportContent, lines 296-299
ReportTimeout ==
    /\ reportTimers > 0
    /\ reportTimers' = reportTimers - 1
    /\ reportGenerated' = TRUE
    /\ reportControls' = "flex"
    /\ ev' = Plain("generateReport")
    /\ UNCHANGED <<recording, micPending, baselinePosture, detVars, camVars, postureVars,
                   emotionVars, flowVars, histVars, answers, interviewData, waiting,
                   recorders, displayed>>
    /\ UNCHANGED backendVars

\* the restart button, taken to be one of the report's controls, which
\* showReportLoader hides until the report is shown (lines 290, 309-324)
RestartClick ==
    /\ reportControls = "flex"
    /\ ResetInterview

\* ----------------------------------------------------------- specification
Next ==
    \/ GetStarted
    \/ StartSession
    \/ WebcamGranted
    \/ LoadedMetadata
    \/ Canplay
    \/ FetchQuestionsDone
    \/ FetchQuestionsFails
    \/ SetBaselineClick
    \/ StartRecording
    \/ MicGranted
    \/ StopRecording
    \/ EndInterviewClick
    \/ PollDimensions
    \/ \E id \in rafQueue : AnimationFrame(id)
    \/ \E poses \in PosesIn(scenario) : PoseInferenceDone(poses)
    \/ \E id \in DOMAIN intervals : EmotionIntervalFires(id)
    \/ \E detections \in FacesIn(scenario) : EmotionInferenceDone(detections)
    \/ \E id \in DOMAIN postureTimers : PostureTimerElapsed(id)
    \/ \E id \in DOMAIN emotionTimers : EmotionTimerElapsed(id)
    \/ Tick

Spec == Init /\ [][Next]_vars

\* sessions restarted from the report, with no answer recorded
NextRestart ==
    \/ GetStarted
    \/ StartSession
    \/ WebcamGranted
    \/ LoadedMetadata
    \/ Canplay
    \/ FetchQuestionsDone
    \/ FetchQuestionsFails
    \/ SetBaselineClick
    \/ EndInterviewClick
    \/ ResetInterview
    \/ PollDimensions
    \/ \E id \in rafQueue : AnimationFrame(id)
    \/ \E poses \in PosesIn(scenario) : PoseInferenceDone(poses)
    \/ Tick

SpecRestart == InitRestart /\ [][NextRestart]_vars

\* every scenario, with every operation: in the "restart" scenario answers may
\* be recorded too and the report's restart button is used
RestartFromReport == scenario = "restart" /\ ResetInterview
InitAnyScenario == Init \/ InitRestart
NextAnyScenario == Next \/ RestartFromReport
SpecAnyScenario == InitAnyScenario /\ [][NextAnyScenario]_vars

\* the pose loop of one session on any result of the detector, a subject
\* without keypoints included
InitPoseLoop == scenario = "poseloop" /\ Loaded
NextPoseLoop ==
    \/ GetStarted
    \/ StartSession
    \/ WebcamGranted
    \/ LoadedMetadata
    \/ Canplay
    \/ FetchQuestionsDone
    \/ SetBaselineClick
    \/ EndInterviewClick
    \/ PollDimensions
    \/ \E id \in rafQueue : AnimationFrame(id)
    \/ \E poses \in PosesIn(scenario) : PoseInferenceDone(poses)
    \/ Tick
SpecPoseLoop == InitPoseLoop /\ [][NextPoseLoop]_vars

\* the two handlers alone, not recording: runEmotionDetection after its await
\* on the detections of one inference, and handlePoseResults on the poses of
\* one inference; an exception leaves the handler at the point of the throw
InitHandlers == scenario = "handlers" /\ Loaded
FacesDetected(detections) ==
    /\ IF EmotionHandlerThrows(detections)
       THEN /\ ev' = Thrown("runEmotionDetection")
            /\ UNCHANGED <<emotionVars, epNotes, epEnded, persisted, lastObs>>
       ELSE ProcessDetections(detections)
    /\ UNCHANGED <<recording, micPending, baselinePosture, detVars, camVars, postureVars,
                   flowVars, detStopped, scenario, sessions>>
    /\ UNCHANGED answerVars
    /\ UNCHANGED backendVars
PosesEstimated(results) ==
    /\ IF PoseHandlerThrows(results)
       THEN /\ ev' = Thrown("handlePoseResults")
            /\ UNCHANGED <<postureVars, epNotes, epEnded, persisted, lastObs>>
       ELSE handlePoseResults(results)
    /\ UNCHANGED <<recording, micPending, baselinePosture, detVars, camVars, emotionVars,
                   flowVars, detStopped, scenario, sessions>>
    /\ UNCHANGED answerVars
    /\ UNCHANGED backendVars
NextHandlers ==
    \/ \E detections \in Detections : FacesDetected(detections)
    \/ \E results \in Poses : PosesEstimated(results)
SpecHandlers == InitHandlers /\ [][NextHandlers]_vars

\* the answers followed to the report: answers are recorded, processed and
\* reported and the interview may be restarted. The run starts where the first
\* session has been started and its video plays (the state that GetStarted,
\* StartSession, WebcamGranted, LoadedMetadata and Canplay lead to); the
\* subject sits upright and a frame is classified whenever one comes (the
\* camera and the loop that delivers the frames are left to the scenarios
\* above)
InitAnswers ==
    /\ scenario = "answers"
    /\ sessions = 1
    /\ recording = FALSE
    /\ poseDetectionFrameId = 0
    /\ detectionInterval = 1
    /\ video = "playing"
    /\ rafQueue = {}
    /\ intervals = Put(NoTimers, 1, [rem |-> IntervalTicks])
    /\ dimPolls = 1
    /\ poseInFlight = 0
    /\ emoInFlight = 0
    /\ postureTimers = NoTimers
    /\ emotionTimers = NoTimers
    /\ camPending = 0
    /\ metaWait = FALSE
    /\ listeners = 1
    /\ micPending = 0
    /\ fetchPending = 1
    /\ baselinePosture = <<>>
    /\ lastKeypoints = <<>>
    /\ badPostureTimer = 0
    /\ isAlertingPosture = FALSE
    /\ badEmotionTimer = 0
    /\ isAlertingEmotion = FALSE
    /\ lastDetectedEmotion = "neutral"
    /\ isFetchingQuestions = TRUE
    /\ answersBeingProcessed = 0
    /\ questions = 0
    /\ currentQuestionIndex = 0
    /\ currentAnswerEmotions = <<>>
    /\ currentAnswerPostures = <<>>
    /\ screen = "interview"
    /\ questionText = "waiting"
    /\ answerBtnDisabled = TRUE
    /\ setBaselineBtnDisabled = FALSE
    /\ overlayVisible = TRUE
    /\ postureLabel = "Calibrating..."
    /\ emotionLabel = "Detecting..."
    /\ ev = Other
    /\ detStopped = FALSE
    /\ epNotes = [c \in Conds |-> 0]
    /\ epEnded = [c \in Conds |-> 0]
    /\ persisted = [c \in Conds |-> TRUE]
    /\ lastObs = [c \in Conds |-> "none"]
    /\ answers = NoAnswers
    /\ interviewData = <<>>
    /\ waiting = 0
    /\ reportTimers = 0
    /\ reportControls = ""
    /\ reportGenerated = FALSE
    /\ recorders = 0
    /\ displayed = <<>>
    /\ NoRequest
NextAnswers ==
    \/ StartSession
    \/ FetchQuestionsDone
    \/ SetBaselineClick
    \/ StartRecording
    \/ MicGranted
    \/ StopRecording
    \/ EndInterviewClick
    \/ RestartClick
    \/ \E results \in PosesIn(scenario) : PosesEstimated(results)
    \/ \E id \in DOMAIN answers : RecorderStopped(id)
    \/ \E id \in DOMAIN answers, outcome \in Outcomes : BackendResponds(id, outcome)
    \/ WaitPoll
    \/ ReportTimeout
SpecAnswers == InitAnswers /\ [][NextAnswers]_vars

\* the audio recorders of one session: the answer button stays enabled while
\* startRecording awaits the microphone, so a second call may await it too
InitRecorders == scenario = "recorders" /\ Loaded
NextRecorders ==
    \/ GetStarted
    \/ StartSession
    \/ WebcamGranted
    \/ LoadedMetadata
    \/ Canplay
    \/ FetchQuestionsDone
    \/ SetBaselineClick
    \/ StartRecording
    \/ MicGranted
    \/ StopRecording
    \/ EndInterviewClick
    \/ \E results \in PosesIn(scenario) : PosesEstimated(results)
SpecRecorders == InitRecorders /\ [][NextRecorders]_vars

\* calculateDistribution alone, called once in a run on an array of up to
\* MaxLabels labels: runs of two labels, and arrays of three labels in mixed
\* order
MaxLabels == 40
Runs(label, n) == [i \in 1..n |-> label]
LabelArrays ==
    {Runs("Good Posture", a) \o Runs("Slouching", b) :
        a \in 0..MaxLabels, b \in 0..MaxLabels}
    \cup {<<"Slouching", "Slouching", "Good Posture">>,
          <<"Slouching", "Good Posture", "Slouching">>,
          <<"Tilted Shoulders", "Good Posture", "Slouching">>,
          <<"Good Posture", "Tilted Shoulders", "Slouching", "Good Posture">>}
InitDistribution == scenario = "distribution" /\ Loaded
Distribute(dataArray) ==
    /\ ev.op # "calculateDistribution"
    /\ Len(dataArray) <= MaxLabels
    /\ ev' = [Plain("calculateDistribution") EXCEPT
                 !.seen = dataArray, !.dist = calculateDistribution(dataArray)]
    /\ UNCHANGED <<recording, micPending, baselinePosture, detVars, camVars, postureVars,
                   emotionVars, flowVars, histVars>>
    /\ UNCHANGED answerVars
    /\ UNCHANGED backendVars
NextDistribution == \E dataArray \in LabelArrays : Distribute(dataArray)
SpecDistribution == InitDistribution /\ [][NextDistribution]_vars

\* the posture classifier and the calibration alone: handlePoseResults hands a
\* frame to analyzePosture (lines 98-100), the baseline button calls setBaseline
InitClassifier == scenario = "classifier" /\ Loaded

AnalyzeFrame(keypoints) ==
    /\ lastKeypoints' = <<keypoints>>
    /\ ev' = [Plain("analyzePosture") EXCEPT
                 !.flags = analyzePosture(keypoints, baselinePosture)]
    /\ UNCHANGED <<recording, micPending, baselinePosture, detVars, camVars,
                   badPostureTimer, isAlertingPosture, postureTimers,
                   currentAnswerPostures, postureLabel, emotionVars, flowVars, histVars>>
    /\ UNCHANGED answerVars
    /\ UNCHANGED backendVars

CallSetBaseline ==
    /\ baselinePosture' = IF setBaseline(lastKeypoints) = <<>> THEN baselinePosture
                          ELSE setBaseline(lastKeypoints)
    /\ ev' = Calibrated
    /\ UNCHANGED <<recording, micPending, detVars, camVars, postureVars, emotionVars,
                   flowVars, histVars>>
    /\ UNCHANGED answerVars
    /\ UNCHANGED backendVars

NextClassifier ==
    \/ \E keypoints \in Frames : AnalyzeFrame(keypoints)
    \/ CallSetBaseline

SpecClassifier == InitClassifier /\ [][NextClassifier]_vars

\* ------------------------------------------------------------- the backend
\* routes/fetchQuestions.js and routes/transcribe.js: one request at a time.
\* The frontend's variables stay as loaded.
maxRetries == 3
Overloaded == 503
\* the statuses generateContent may fail with; 0 is an error without a status
ErrorStatuses == {Overloaded, 429, 0}
\* what one generateContent call comes to: a reply whose text is JSON, a reply
\* whose text is not, or an error
ModelOutcomes ==
    {[status |-> 200, text |-> "json"], [status |-> 200, text |-> "notjson"]}
    \cup {[status |-> st, text |-> ""] : st \in ErrorStatuses}
\* a field of the form: absent, a JSON text, or another text
FormTexts == {"", "json", "notjson"}
RequestBodies ==
    {[audio |-> a, postureData |-> p, emotionData |-> e, params |-> ""] :
        a \in BOOLEAN, p \in FormTexts, e \in FormTexts}
\* what saving, converting and transcribing the audio come to, lines 35-38
AudioOutcomes == {"mv fails", "ffmpeg fails", "whisper fails", "silence", "speech"}

Respond(status, text) == sent' = Append(sent, [status |-> status, body |-> text])
Reply(status, text) == <<[status |-> status, body |-> text]>>

\* a cleanup that stops at the webm file, against which C36 is tried
unlinkWebmOnly(files) == files \o <<"webm">>

\* the finally block of /transcribe, lines 121-125
unlinkBoth(files) == files \o <<"webm", "wav">>

\* a retry on any error, against which C35 is tried
RetriesAnyError(st, idx) == idx < maxRetries - 1

\* lines 94 (transcribe.js) and 96 (fetchQuestions.js)
Retries(st, idx) == st = Overloaded /\ idx < maxRetries - 1

\* lines 95 and 97: Math.pow(2, i) * 1000
RetryDelay(idx) == (2 ^ idx) * 1000

\* the catch block of a route, with the finally block of /transcribe:
\* transcribe.js lines 118-125, fetchQuestions.js lines 113-116
Catch(st) ==
    /\ IF route = "transcribe"
       THEN /\ Respond(500, "Processing failed")
            /\ unlinked' = unlinkBoth(unlinked)
       ELSE /\ Respond(IF st # 0 THEN st ELSE 500, "Failed to generate questions")
            /\ UNCHANGED unlinked
    /\ pc' = "done"

frontendVars == <<recording, micPending, baselinePosture, detVars, camVars, postureVars,
                  emotionVars, flowVars, histVars, answerVars, ev>>

\* POST /transcribe up to its first await, lines 22-35
TranscribeRequest(b) ==
    /\ pc = "idle"
    /\ route' = "transcribe"
    /\ body' = b
    /\ IF ~b.audio
       THEN /\ Respond(400, "No audio uploaded")
            /\ pc' = "done"
       ELSE /\ pc' = "audio"
            /\ UNCHANGED sent
    /\ UNCHANGED <<heard, attempt, result, calls, errors, delays, unlinked>>
    /\ UNCHANGED frontendVars

\* lines 35-46 and the first iteration's call: the audio is saved, converted
\* and transcribed, and the two summaries are parsed
AudioProcessed(outcome) ==
    /\ pc = "audio"
    /\ heard' = outcome
    /\ IF outcome = "silence"
       THEN /\ Respond(200, "skipEvaluation")
            /\ unlinked' = unlinkBoth(unlinked)
            /\ pc' = "done"
       ELSE IF outcome # "speech" \/ "notjson" \in {body.postureData, body.emotionData}
       THEN Catch(0)
       ELSE /\ pc' = "call"
            /\ UNCHANGED <<sent, unlinked>>
    /\ attempt' = 0
    /\ UNCHANGED <<route, body, result, calls, errors, delays>>
    /\ UNCHANGED frontendVars

\* POST /questions up to its first await, lines 18-94
QuestionsRequest(params) ==
    /\ pc = "idle"
    /\ route' = "questions"
    /\ body' = [NoBody EXCEPT !.params = params]
    /\ IF params = "missing"
       THEN /\ Respond(400, "Missing parameters")
            /\ pc' = "done"
       ELSE /\ pc' = "call"
            /\ UNCHANGED sent
    /\ attempt' = 0
    /\ UNCHANGED <<heard, result, calls, errors, delays, unlinked>>
    /\ UNCHANGED frontendVars

\* await model.generateContent(...) settles: the rest of the iteration, and on
\* success the rest of the handler (transcribe.js lines 91-116,
\* fetchQuestions.js lines 93-112)
GenerateContent(outcome) ==
    /\ pc = "call"
    /\ calls' = calls + 1
    /\ IF outcome.status = 200
       THEN /\ result' = outcome.text
            /\ IF outcome.text = "json"
               THEN /\ pc' = "done"
                    /\ IF route = "transcribe"
                       THEN /\ Respond(200, "evaluation")
                            /\ unlinked' = unlinkBoth(unlinked)
                       ELSE /\ Respond(200, "questions")
                            /\ UNCHANGED unlinked
               ELSE Catch(0)
            /\ UNCHANGED <<errors, delays>>
       ELSE /\ errors' = Append(errors, outcome.status)
            /\ UNCHANGED result
            /\ IF Retries(outcome.status, attempt)
               THEN /\ delays' = Append(delays, RetryDelay(attempt))
                    /\ pc' = "delay"
                    /\ UNCHANGED <<sent, unlinked>>
               ELSE /\ Catch(outcome.status)
                    /\ UNCHANGED delays
    /\ UNCHANGED <<route, body, heard, attempt>>
    /\ UNCHANGED frontendVars

\* the timeout of the retry delay: i++ and the next iteration up to its await
RetryDelayElapsed ==
    /\ pc = "delay"
    /\ attempt' = attempt + 1
    /\ pc' = "call"
    /\ UNCHANGED <<route, body, heard, result, calls, errors, delays, sent, unlinked>>
    /\ UNCHANGED frontendVars

InitBackend == scenario = "backend" /\ Loaded
NextBackend ==
    \/ \E b \in RequestBodies : TranscribeRequest(b)
    \/ \E outcome \in AudioOutcomes : AudioProcessed(outcome)
    \/ \E params \in {"missing", "given"} : QuestionsRequest(params)
    \/ \E outcome \in ModelOutcomes : GenerateContent(outcome)
    \/ RetryDelayElapsed
SpecBackend == InitBackend /\ [][NextBackend]_vars

\* ---------------------------------------------------------------- properties
Handlers == {"handlePoseResults", "runEmotionDetection"}
TimerCallbacks == {"postureTimer", "emotionTimer"}

\* C1: for each condition, within one run of adverse observations processed
\* while recording at most one coaching notification is emitted, and once it
\* has been emitted no observation arms a timer until a non-adverse
\* observation has been processed
OneNotificationPerAdverseRun ==
    \A c \in Conds :
        /\ epNotes[c] <= 1
        /\ (ev.armed = c => epNotes[c] = 0)

\* a further adverse frame is processed while recording after the posture tip
OneNotificationPerAdverseRunWitness ==
    /\ ev.op = "handlePoseResults"
    /\ ev.obs = "adverse"
    /\ ev.rec
    /\ ev.from = "alerted"
    /\ epNotes["posture"] = 1

\* C2: once stopAllDetections has returned (and detection has not been started
\* again) no classification runs, no inference is requested, the pose loop
\* is not rescheduled and no coaching notification is emitted
NothingRunsAfterStop ==
    detStopped =>
        /\ ev.op \notin Handlers
        /\ ev.op \notin {"estimatePoses", "detectAllFaces", "runPoseDetectionLoop"}
        /\ ev.tips = {}

\* C3: a non-adverse observation processed while recording leaves the
\* condition Idle: no timer handle, no pending timeout that could still
\* notify, and the alerted flag false
NonAdverseResetsToIdle ==
    /\ (ev.op = "handlePoseResults" /\ ev.obs = "fine" /\ ev.rec) =>
           /\ badPostureTimer = 0
           /\ ~isAlertingPosture
           /\ DOMAIN postureTimers = {}
    /\ (ev.op = "runEmotionDetection" /\ ev.obs = "fine" /\ ev.rec) =>
           /\ badEmotionTimer = 0
           /\ ~isAlertingEmotion
           /\ DOMAIN emotionTimers = {}

\* a good frame is processed while recording with the posture timer pending
NonAdverseResetsToIdleWitness ==
    /\ ev.op = "handlePoseResults"
    /\ ev.obs = "fine"
    /\ ev.rec
    /\ ev.from = "pending"

\* C4: a step in which a handler processes an observation while recording is
\* false leaves both accumulators, both timer handles, both pending timeout
\* tables and both alerted flags unchanged
NotRecordingLeavesAlertingAlone ==
    [][(ev'.op \in Handlers /\ ~ev'.rec) =>
           UNCHANGED <<currentAnswerPostures, currentAnswerEmotions, badPostureTimer,
                       badEmotionTimer, postureTimers, emotionTimers, isAlertingPosture,
                       isAlertingEmotion>>]_vars

\* a good frame is processed while not recording with the posture timer
\* pending: the label and the last keypoints follow it, the timer stays
NotRecordingLeavesAlertingAloneWitness ==
    /\ ev.op = "handlePoseResults"
    /\ ev.obs = "fine"
    /\ ~ev.rec
    /\ postureLabel = "Good Posture"
    /\ lastKeypoints = <<GoodFrame>>
    /\ badPostureTimer # 0

\* C5: a step in which an alert timer elapses (it nulls the handle and may
\* raise the alerted flag) is taken with recording true
TimerElapsesOnlyWhileRecording ==
    ev.op \in TimerCallbacks => ev.rec

NotifiedOnlyIfPersisted ==
    ev.tips # {} => ev.kept

\* C8: from the end of an episode to the next adverse observation processed
\* while recording the condition stays Idle, and an adverse observation
\* processed while recording in Idle arms a timer with the full threshold
FreshTimerAfterEpisode ==
    /\ epEnded["posture"] = 1 =>
           badPostureTimer = 0 /\ ~isAlertingPosture /\ DOMAIN postureTimers = {}
    /\ epEnded["emotion"] = 1 =>
           badEmotionTimer = 0 /\ ~isAlertingEmotion /\ DOMAIN emotionTimers = {}
    /\ (ev.op = "handlePoseResults" /\ ev.obs = "adverse" /\ ev.rec /\ ev.from = "idle") =>
           /\ ev.armed = "posture"
           /\ DOMAIN postureTimers = {badPostureTimer}
           /\ postureTimers[badPostureTimer] =
                  [rem |-> POSTURE_ALERT_THRESHOLD_MS \div TickMs, age |-> 0]
    /\ (ev.op = "runEmotionDetection" /\ ev.obs = "adverse" /\ ev.rec /\ ev.from = "idle") =>
           /\ ev.armed = "emotion"
           /\ DOMAIN emotionTimers = {badEmotionTimer}
           /\ emotionTimers[badEmotionTimer] =
                  [rem |-> EMOTION_ALERT_THRESHOLD_MS \div TickMs, age |-> 0]

\* an emotion episode has ended, a later negative emotion armed a new timer
\* and that timer has notified
FreshTimerAfterEpisodeWitness ==
    /\ epEnded["emotion"] = 2
    /\ ev.op = "emotionTimer"
    /\ ev.waited = EMOTION_ALERT_THRESHOLD_MS \div TickMs
    /\ ev.tips = {EmotionTip}

\* C9: at most one estimatePoses call is outstanding
OnePoseInferenceOutstanding == poseInFlight <= 1

\* C10: at most one detectAllFaces call is outstanding
OneExpressionInferenceOutstanding == emoInFlight <= 1

InferenceRequests == {"estimatePoses", "detectAllFaces"}

\* C11: after startDetection an inference of either loop is requested only once
\* the 100 ms readiness poll has succeeded, and the poll succeeds only when the
\* video reports a non-zero width (a stream with known metadata)
LoopsBeginAfterWidthKnown ==
    /\ ev.op \in InferenceRequests => dimPolls = 0
    /\ ev.op = "estimatePoses" /\ ev.from = "poll" => video \in {"ready", "playing"}
    /\ ev.op = "detectAllFaces" => video = "playing"

\* an expression inference is requested while the pose loop is running
LoopsBeginAfterWidthKnownWitness ==
    ev.op = "detectAllFaces" /\ dimPolls = 0 /\ PoseChains > 0

\* C12: after stopAllDetections both handles are null and the video has no
\* stream (every track stopped, srcObject null); a second call in that state
\* would assign every variable the value it already has
StopLeavesNothingToStop ==
    ev.op = "stopAllDetections" =>
        /\ poseDetectionFrameId = 0
        /\ detectionInterval = 0
        /\ video = "empty"
        /\ rafQueue \ {poseDetectionFrameId} = rafQueue
        /\ Drop(intervals, detectionInterval) = intervals

\* stopAllDetections has been called with both handles set
StopLeavesNothingToStopWitness ==
    ev.op = "stopAllDetections" /\ ev.from = "running"

\* ------------------------------------------- properties of the classifier
\* the frame last handed to analyzePosture / read by setBaseline
Names(keypoints) == {keypoints[i].name : i \in DOMAIN keypoints}
FlagSet(flags) == {flags[i] : i \in DOMAIN flags}
Seen == lastKeypoints[1]
CoreNames == {"left_shoulder", "right_shoulder", "nose"}
CoreHidden == ~(CoreNames \subseteq Names(Seen))
LeftShoulder == findKeypoint(Seen, "left_shoulder")[1]
RightShoulder == findKeypoint(Seen, "right_shoulder")[1]
Nose == findKeypoint(Seen, "nose")[1]
ShoulderDx == RightShoulder.x - LeftShoulder.x
ShoulderDy == RightShoulder.y - LeftShoulder.y
ShoulderWidth == Abs(ShoulderDx)
\* twice noseToShoulderGap
NoseGap2 == (LeftShoulder.y + RightShoulder.y) - 2 * Nose.y
Analysed == ev.op = "analyzePosture"

\* C13: a frame lacking the left shoulder, the right shoulder or the nose is
\* classified as exactly <<"Key points hidden">>, whatever else it contains
HiddenCoreGivesHiddenOnly ==
    Analysed /\ CoreHidden => ev.flags = <<"Key points hidden">>

\* the nose is missing while eyes, ears, mouth and a baseline are there
HiddenCoreGivesHiddenOnlyWitness ==
    /\ Analysed
    /\ "nose" \notin Names(Seen)
    /\ {"left_shoulder", "left_eye", "right_ear", "mouth_left"} \subseteq Names(Seen)
    /\ baselinePosture # <<>>
    /\ ev.flags = <<"Key points hidden">>

PriorityLists ==
    {s \o t \o l \o h : s \in {<<>>, <<"Slouching">>},
                        t \in {<<>>, <<"Looking Down">>, <<"Looking Up">>},
                        l \in {<<>>, <<"Leaning Head">>},
                        h \in {<<>>, <<"Tilted Shoulders">>}}

\* C14: every list analyzePosture returns is either <<"Key points hidden">>
\* alone or a selection from Slouching, Looking Down or Looking Up, Leaning
\* Head, Tilted Shoulders in that order, without repetition
FlagsFollowPriorityOrder ==
    Analysed => ev.flags \in PriorityLists \cup {<<"Key points hidden">>}

\* all four checks have flagged one frame
FlagsFollowPriorityOrderWitness ==
    /\ Analysed
    /\ ev.flags = <<"Slouching", "Looking Down", "Leaning Head", "Tilted Shoulders">>

\* deviation = (current ratio - R) / R as the fraction DevNum / DevDen, with
\* current ratio NoseGap2 / (2 * ShoulderWidth) and R = num / den
DevNum == NoseGap2 * baselinePosture[1].den - 2 * ShoulderWidth * baselinePosture[1].num
DevDen == 2 * ShoulderWidth * baselinePosture[1].num
DeviationBelowQuarter ==
    \/ DevDen > 0 /\ 4 * DevNum < -DevDen
    \/ DevDen < 0 /\ 4 * DevNum > -DevDen

\* C15: Slouching is flagged exactly when a baseline is set, the shoulder width
\* is positive and the deviation of the frame's ratio from the baseline ratio is
\* strictly below -0.25 (a baseline ratio of 0 counts as deviation 0); a frame
\* at exactly 0.75 R is not flagged
SlouchingIffDeviationBelowQuarter ==
    Analysed /\ ~CoreHidden =>
        ("Slouching" \in FlagSet(ev.flags)) =
            (baselinePosture # <<>> /\ ShoulderWidth > 0 /\ DeviationBelowQuarter)

\* the line through the shoulders is more than 6 degrees off level
\* (tan(6 deg) = 0.10510423...)
OffLevel == Abs(ShoulderDy) * 100000000 > Abs(ShoulderDx) * 10510423

\* C16: for every pair of distinct shoulder positions Tilted Shoulders is
\* flagged exactly when the line through them is more than 6 degrees off level
TiltedShouldersIffOffLevel ==
    Analysed /\ ~CoreHidden /\ (ShoulderDx # 0 \/ ShoulderDy # 0) =>
        ("Tilted Shoulders" \in FlagSet(ev.flags)) = OffLevel

\* C17: a check whose landmarks (or baseline) are absent adds no flag, and a
\* frame with level shoulders at 180 degrees, no baseline, no eyes, no ears and
\* no mouth corners gets the empty list
AbsentLandmarksAddNoFlag ==
    Analysed /\ ~CoreHidden =>
        /\ ~({"left_eye", "right_eye", "left_ear", "right_ear"} \subseteq Names(Seen))
               => FlagSet(ev.flags) \cap {"Looking Down", "Looking Up"} = {}
        /\ ~({"mouth_left", "mouth_right"} \subseteq Names(Seen))
               => "Leaning Head" \notin FlagSet(ev.flags)
        /\ baselinePosture = <<>> => "Slouching" \notin FlagSet(ev.flags)
        /\ Names(Seen) = CoreNames /\ baselinePosture = <<>>
              /\ ShoulderDy = 0 /\ ShoulderDx < 0
               => ev.flags = <<>>

\* only the nose and two level shoulders, no baseline: nothing is flagged
AbsentLandmarksAddNoFlagWitness ==
    /\ Analysed
    /\ Names(Seen) = CoreNames
    /\ baselinePosture = <<>>
    /\ ShoulderDy = 0
    /\ ShoulderDx < 0
    /\ ev.flags = <<>>

\* C18: setBaseline returns false, leaves baselinePosture as it was and shows
\* its own error text in each of the three failure cases: no frame seen yet, a
\* shoulder or the nose missing, shoulder width below 10
SetBaselineFailuresKeepBaseline ==
    [][ev'.op = "setBaseline" =>
          /\ Cardinality({StillCalibrating, ShouldersUnclear, WidthUnknown, BaselineSaved}) = 4
          /\ lastKeypoints = <<>> =>
                 /\ ev'.ret = "false"
                 /\ ev'.note = StillCalibrating
                 /\ baselinePosture' = baselinePosture
          /\ lastKeypoints # <<>> /\ CoreHidden =>
                 /\ ev'.ret = "false"
                 /\ ev'.note = ShouldersUnclear
                 /\ baselinePosture' = baselinePosture
          /\ lastKeypoints # <<>> /\ ~CoreHidden /\ ShoulderWidth < 10 =>
                 /\ ev'.ret = "false"
                 /\ ev'.note = WidthUnknown
                 /\ baselinePosture' = baselinePosture]_vars

\* a call has failed on a shoulder width of 9 with a baseline in place
SetBaselineFailuresKeepBaselineWitness ==
    /\ ev.op = "setBaseline"
    /\ ev.ret = "false"
    /\ ev.note = WidthUnknown
    /\ ShoulderWidth = 9
    /\ baselinePosture # <<>>

\* C19: on a frame with both shoulders, the nose and a shoulder width of at
\* least 10 setBaseline returns true and the baseline becomes the ratio of that
\* frame, (average shoulder y - nose y) / shoulder width, whatever it was before
SetBaselineSuccessReplacesBaseline ==
    [][ev'.op = "setBaseline" /\ lastKeypoints # <<>> /\ ~CoreHidden
          /\ ShoulderWidth >= 10 =>
              /\ ev'.ret = "true"
              /\ ev'.note = BaselineSaved
              /\ Len(baselinePosture') = 1
              /\ baselinePosture'[1].den > 0
              /\ baselinePosture'[1].num * 2 * ShoulderWidth
                     = NoseGap2 * baselinePosture'[1].den]_vars

\* a call has succeeded on a shoulder width of exactly 10 and has replaced a
\* different baseline
SetBaselineSuccessReplacesBaselineWitness ==
    /\ ev.op = "setBaseline"
    /\ ev.ret = "true"
    /\ ev.prior = "other"
    /\ ShoulderWidth = 10

\* the step of the baseline button's listener in which setBaseline has returned
\* true: the listener goes on and hides the overlay
BaselineAccepted ==
    /\ setBaseline(lastKeypoints) # <<>>
    /\ overlayVisible
    /\ ~overlayVisible'

\* C20: baselinePosture is null when the page has loaded, no step changes it
\* but a successful setBaseline and resetInterview (pose frames, emotion ticks,
\* starting and stopping a recording or the detection and endInterview leave
\* it as it was), and after resetInterview it is null
BaselineChangesOnlyByCalibrationAndReset ==
    /\ baselinePosture = <<>>
    /\ [][/\ baselinePosture' # baselinePosture =>
                 (BaselineAccepted \/ ev'.op = "resetInterview")
          /\ ev'.op = "resetInterview" => baselinePosture' = <<>>]_vars

\* resetInterview has just cleared a baseline that a calibration had stored
BaselineChangesOnlyByCalibrationAndResetWitness ==
    /\ ev.op = "resetInterview"
    /\ ev.prior = "other"
    /\ baselinePosture = <<>>
    /\ sessions > 0

\* the detections the last runEmotionDetection was given hold a face
FaceClassified ==
    /\ ev.op = "runEmotionDetection"
    /\ ev.seen # <<>>

\* C21: the dominant emotion of a detected face is a key with the maximum
\* score of the expression mapping, and among the keys with the maximum score
\* the first in the mapping's iteration order
DominantEmotionIsFirstMaximum ==
    FaceClassified =>
        LET expressions == ev.seen[1]
        IN  \E i \in DOMAIN expressions :
                /\ lastDetectedEmotion = expressions[i].name
                /\ \A j \in DOMAIN expressions :
                       /\ expressions[j].score <= expressions[i].score
                       /\ j < i => expressions[j].score < expressions[i].score

\* two keys share the maximum, neither is the first entry, and the earlier of
\* the two is the dominant emotion
DominantEmotionIsFirstMaximumWitness ==
    /\ FaceClassified
    /\ ev.seen[1] = <<Sc("happy", 2), Sc("sad", 6), Sc("neutral", 6)>>
    /\ lastDetectedEmotion = "sad"

\* the keys of EMOTION_MAP, lines 41-48, and the labels shown for them
EmotionCategories == {"happy", "sad", "neutral", "surprised", "angry", "fearful"}
CategoryLabels == {Capitalised(e) : e \in EmotionCategories}

\* C22: a runEmotionDetection that is given no face shows a label that is the
\* label of no emotion category (neutral included), arms no timer, changes
\* neither the alerted flag nor the accumulator, shows no notification, and
\* leaves a last detected emotion that is not negative, so that a timer that
\* elapses next does not notify because of it
NoFaceIsSentinelAndNotNegative ==
    [][ev'.op = "runEmotionDetection" /\ ev'.seen = <<>> =>
           /\ emotionLabel' = "No Face"
           /\ emotionLabel' \notin CategoryLabels
           /\ UNCHANGED <<badEmotionTimer, emotionTimers, isAlertingEmotion,
                          currentAnswerEmotions>>
           /\ ev'.tips = {}
           /\ lastDetectedEmotion' \notin NEGATIVE_EMOTIONS]_vars

\* no face was detected while recording, after a negative emotion had armed
\* the timer, which is still pending
NoFaceIsSentinelAndNotNegativeWitness ==
    /\ ev.op = "runEmotionDetection"
    /\ ev.seen = <<>>
    /\ ev.rec
    /\ badEmotionTimer # 0
    /\ emotionLabel = "No Face"

\* the number of times a label occurs in an array
Occurrences(dataArray, label) ==
    Cardinality({i \in DOMAIN dataArray : dataArray[i] = label})

\* C23: calculateDistribution returns the empty mapping for an empty array;
\* otherwise its keys are the distinct labels of the array and the value of a
\* label is 100 * count / total rounded to the nearest integer, halves up
DistributionIsRoundedShare ==
    ev.op = "calculateDistribution" =>
        /\ DOMAIN ev.dist = {ev.seen[i] : i \in DOMAIN ev.seen}
        /\ \A label \in DOMAIN ev.dist :
               ev.dist[label] = PercentExact(Occurrences(ev.seen, label), Len(ev.seen))

\* the label handlePoseResults logs for the frame it has just stored
LoggedPosture ==
    LET postureFlags == analyzePosture(lastKeypoints'[1], baselinePosture)
    IN  IF postureFlags = <<>> THEN "Good Posture" ELSE postureFlags[1]

\* C25: while recording, every pose inference result appends one label to
\* currentAnswerPostures (for a classified frame Good Posture or the first
\* flag) and every emotion tick appends one label to currentAnswerEmotions,
\* frames without a subject or a face included (as long as the accumulator is
\* below the length the model keeps)
EveryFrameAppendsOneLabel ==
    [][/\ recording /\ ev'.op \in {"handlePoseResults", "runPoseDetectionLoop"}
             /\ Len(currentAnswerPostures) < MaxLog =>
                 /\ Len(currentAnswerPostures') = Len(currentAnswerPostures) + 1
                 /\ ev'.obs # "none" =>
                        currentAnswerPostures' = Append(currentAnswerPostures, LoggedPosture)
       /\ recording /\ ev'.op = "runEmotionDetection"
             /\ Len(currentAnswerEmotions) < MaxLog =>
                 /\ Len(currentAnswerEmotions') = Len(currentAnswerEmotions) + 1
                 /\ ev'.seen # <<>> =>
                        currentAnswerEmotions' =
                            Append(currentAnswerEmotions, dominantEmotion(ev'.seen[1]))]_vars

\* the part of C25 about frames with a subject and ticks with a face
ClassifiedFrameAppendsOneLabel ==
    [][/\ recording /\ ev'.op = "handlePoseResults" /\ ev'.obs # "none"
             /\ Len(currentAnswerPostures) < MaxLog =>
                 currentAnswerPostures' = Append(currentAnswerPostures, LoggedPosture)
       /\ recording /\ ev'.op = "runEmotionDetection" /\ ev'.seen # <<>>
             /\ Len(currentAnswerEmotions) < MaxLog =>
                 currentAnswerEmotions' =
                     Append(currentAnswerEmotions, dominantEmotion(ev'.seen[1]))]_vars

\* C26: the two pipelines never throw: whatever the result of an inference
\* (no subject, a subject without keypoints, malformed coordinates, no face, a
\* face with an empty expression mapping), the handler returns normally
HandlersNeverThrow == ev.op # "TypeError"

\* a keypoint of the frame handlePoseResults was given has a coordinate that
\* is not a number
InvalidCoordinate(results) == \E i \in DOMAIN results[1] : results[1][i].xnan

\* C27: a pose frame in which a coordinate of any keypoint is not a number is
\* no signal: it is not classified, the last-known keypoints, the accumulator
\* and the alert state stay as they were
InvalidFrameIsNoSignal ==
    [][ev'.op = "handlePoseResults" /\ ev'.seen # <<>> /\ InvalidCoordinate(ev'.seen) =>
           /\ ev'.obs = "none"
           /\ UNCHANGED <<lastKeypoints, currentAnswerPostures, badPostureTimer,
                          isAlertingPosture, postureTimers>>]_vars

\* ------------------------------------------------ properties of the answers
\* the answers that prepareFormData has read and sent to the backend
Sent == {id \in DOMAIN answers : answers[id].stage = "sent"}

\* C24: the posture and emotion distributions sent to the backend for an
\* answer are those of the labels appended between its startRecording and its
\* stopRecording, whatever happens between the stop and the recorder's onstop
SentDistributionsAreOfTheAnswer ==
    \A id \in Sent :
        /\ answers[id].postureData = calculateDistribution(answers[id].postures)
        /\ answers[id].emotionData = calculateDistribution(answers[id].emotions)

\* both accumulators are empty when recording becomes true
RecordingStartsEmpty ==
    [][~recording /\ recording' =>
          currentAnswerPostures' = <<>> /\ currentAnswerEmotions' = <<>>]_vars

AnswersPairedWithTheirQuestion ==
    \A i \in DOMAIN interviewData : interviewData[i].question = interviewData[i].asked

\* C30: answersBeingProcessed is not negative and counts the answers whose
\* recording was stopped and whose processAnswer has not finished
CounterCountsAnswersInFlight ==
    /\ answersBeingProcessed >= 0
    /\ answersBeingProcessed = Cardinality(InFlight(answers))

\* C31: no failure while an answer is prepared or processed leaves
\* answersBeingProcessed above 0 for good, so that the report, which waits for
\* 0, comes: a counter above 0 has an answer behind it that is still to be
\* processed and will bring it down
CounterAboveZeroComesDown == answersBeingProcessed > 0 => InFlight(answers) # {}

\* ------------------------------------------ properties of the detection loops
\* the emotion intervals that are live
LiveIntervals == Cardinality(DOMAIN intervals)

\* C32: whatever startDetection and stopAllDetections calls have been made, at
\* most one pose loop chain and at most one emotion interval are live, and
\* stopAllDetections leaves none of them
OneLoopOfEachKind ==
    /\ PoseChains <= 1
    /\ LiveIntervals <= 1
    /\ ev.op = "stopAllDetections" => PoseChains = 0 /\ LiveIntervals = 0

\* C33: each completed pose inference schedules exactly one next iteration,
\* with or without a pose in the frame, and a pose loop chain ends only in a
\* step that cancels the stored frame (stopAllDetections, or startDetection
\* replacing the loop)
CompletedInferenceSchedulesNext ==
    [][/\ poseInFlight' < poseInFlight =>
            /\ poseInFlight' = poseInFlight - 1
            /\ Cardinality(rafQueue' \ rafQueue) = 1
            /\ poseDetectionFrameId' \in rafQueue' \ rafQueue
            /\ PoseChains' = PoseChains
       /\ PoseChains' < PoseChains =>
            /\ poseDetectionFrameId \in rafQueue
            /\ rafQueue' = rafQueue \ {poseDetectionFrameId}]_vars


\* ------------------------------------------- properties of the audio recorders
\* C34: at most one audio recorder records at a time, and none is left
\* recording that the answer button or endInterview can no longer stop: the
\* recorders running are the one of the answer being recorded, if any
OneRecorderAndNoneLeftRunning ==
    /\ recorders <= 1
    /\ ~recording => recorders = 0

\* ----------------------------------------------------- properties of the backend
InLoop == pc \in {"call", "delay"}
LoopLeft == pc = "done" /\ calls > 0

\* C35: a request calls the generative model at most 3 times; a call is made
\* again only after a failure with status 503 that was not the third attempt,
\* and after 1 s, then 2 s; any other error, and a 503 on the third attempt,
\* ends the request with an error reply; the first success ends the loop
ThreeCallsRetryOn503Only ==
    /\ calls <= 3
    /\ Len(errors) \in {calls - 1, calls}
    /\ \A k \in 1..(calls - 1) : errors[k] = 503
    /\ delays \in {<<>>, <<1000>>, <<1000, 2000>>}
    /\ pc = "call" => Len(errors) = calls /\ Len(delays) = calls
    /\ pc = "delay" =>
           Len(errors) = calls /\ errors[calls] = 503 /\ calls < 3 /\ Len(delays) = calls
    /\ LoopLeft => Len(delays) = calls - 1 /\ Len(sent) = 1
    /\ LoopLeft /\ Len(errors) = calls =>
           /\ errors[calls] # 503 \/ calls = 3
           /\ sent[1].status # 200
    /\ LoopLeft /\ Len(errors) = calls - 1 => result # ""

\* the third call has failed with 503 after two retries
ThreeCallsRetryOn503OnlyWitness ==
    /\ LoopLeft
    /\ calls = 3
    /\ errors = <<503, 503, 503>>
    /\ delays = <<1000, 2000>>

\* C36: a /transcribe request sends exactly one response: 400 without audio,
\* the skipEvaluation reply for an empty transcription, the evaluation on
\* success and 500 on any failure; with audio, the removal of the webm file
\* and of the wav file has been attempted when the handler ends
OneResponseAndCleanup ==
    route = "transcribe" =>
        /\ pc # "done" => sent = <<>> /\ unlinked = <<>>
        /\ pc = "done" =>
            /\ sent = IF ~body.audio THEN Reply(400, "No audio uploaded")
                      ELSE IF heard = "silence" THEN Reply(200, "skipEvaluation")
                      ELSE IF result = "json" THEN Reply(200, "evaluation")
                      ELSE Reply(500, "Processing failed")
            /\ body.audio => \A f \in {"webm", "wav"} : \E k \in DOMAIN unlinked : unlinked[k] = f
            /\ ~body.audio => unlinked = <<>>
            /\ result = "json" => heard = "speech" /\ Len(errors) = calls - 1

\* the conversion of the audio has failed and the handler has ended
OneResponseAndCleanupWitness ==
    /\ route = "transcribe"
    /\ pc = "done"
    /\ heard = "ffmpeg fails"
    /\ sent = Reply(500, "Processing failed")
    /\ unlinked = <<"webm", "wav">>

\* ------------------------------------------------- properties of the questions
\* C37: the questions of a list are displayed in order from the first, each at
\* most once; a display shows questions[currentQuestionIndex] and leaves the
\* index one higher; the loading text appears only while questions are being
\* fetched and the index has reached their number, and leaves the index and
\* the screen alone
QuestionsShownInOrderOnce ==
    [][/\ \A k \in DOMAIN displayed' : displayed'[k] = k - 1
       /\ displayed' # <<>> /\ displayed' # displayed =>
              /\ displayed'[Len(displayed')] = currentQuestionIndex' - 1
              /\ currentQuestionIndex' <= questions'
              /\ questionText' = "question"
       /\ questionText' = "loading" /\ questionText # "loading" =>
              /\ isFetchingQuestions'
              /\ currentQuestionIndex' >= questions'
              /\ currentQuestionIndex' = currentQuestionIndex
              /\ screen' = screen
              /\ displayed' = displayed]_vars

\* the second question of a list is on display after the first
QuestionsShownInOrderOnceWitness ==
    /\ displayed = <<0, 1>>
    /\ currentQuestionIndex = 2
    /\ questionText = "question"
    /\ screen = "interview"

\* ------------------------------------------- properties of a baseline ratio 0
ZeroBaseline == baselinePosture # <<>> /\ baselinePosture[1].num = 0

\* C38: with a stored baseline ratio of 0 the deviation counts as 0: no frame
\* is flagged Slouching, wherever its nose is
ZeroBaselineNeverSlouching ==
    Analysed /\ ~CoreHidden /\ ZeroBaseline => "Slouching" \notin FlagSet(ev.flags)

\* a frame with the nose below the shoulder line has been classified against a
\* baseline of ratio 0
ZeroBaselineNeverSlouchingWitness ==
    /\ Analysed
    /\ ~CoreHidden
    /\ ZeroBaseline
    /\ ShoulderWidth > 0
    /\ NoseGap2 < 0
    /\ "Slouching" \notin FlagSet(ev.flags)

====
